---- MODULE Spec2Model ----
(***************************************************************************)
(* Model of the synchronization engine of aviation-weather                 *)
(* (internal/service/service.go) and of the HTTP handlers that call it.    *)
(*                                                                         *)
(* Goroutines: one per caller (an HTTP request or a direct user of the     *)
(* queued API), the two queue workers started by NewService, and the chunk *)
(* tasks started by every run of SyncAllAirports.  Every remote call,      *)
(* store call and channel operation is one step.                           *)
(***************************************************************************)
EXTENDS Integers, Sequences, FiniteSets, TLC

(* ------------------------------ bounds -------------------------------- *)

\* Number of caller goroutines; each makes one call.
NumCallers == 2
\* Largest record store of the concurrency specification.
MaxStore == 1
\* Record stores of the single-run specification hold r or chunkSize + r
\* records, r <= MaxRemainder.
MaxRemainder == 2
\* Under env = "budget" or "traced" at most this many remote or store calls fail.
MaxFailures == 2

\* The largest store whose partition into chunks is checked.
MaxRecords == 45
\* The producers of a burst number MaxExtra more than a queue has room for.
MaxExtra == 2
MaxWeather == 2

(* ------------------------- program constants -------------------------- *)

\* make(chan syncJob, 100), make(chan syncAllJob, 100)
QueueCap == 100
\* make(chan *domain.Airport, 1), make(chan error, 1)
ReplyCap == 1
\* chunkSize := 20
chunkSize == 20
\* for attempt := 0; attempt < 2; attempt++
maxAttempts == 2

Callers == 1..NumCallers

\* Identifiers are 1, 2, ...; 0 is the empty string (the zero Airport).
NoFaa == 0

Min(a, b) == IF a < b THEN a ELSE b

Range(s) == {s[i] : i \in DOMAIN s}

(* ------------------------------- state -------------------------------- *)

VARIABLES
    store,          \* the airport table, ORDER BY faa: Seq of [faa, complete]
    env,            \* which calls of the remote services and the store may fail
    dirComplete,    \* whether the directory's records carry every attribute
    failures,       \* failed calls so far (counted when Budgeted)
    syncQueue,      \* s.syncQueue: Seq of jobs (a job is named by its caller)
    syncAllQueue,   \* s.syncAllQueue
    resultCh,       \* job.resultCh of caller c's job: Seq, capacity ReplyCap
    errCh,          \* job.errCh of caller c's job
    caller,         \* caller goroutine c: [pc, op, faa, ret]
    syncWorker,     \* runSyncWorker: [pc, job]
    syncAllWorker,  \* runSyncAllWorker: [pc, job]
    one,            \* SyncAirportByFAA run for caller c: [pc, faa, airport, ret]
    run,            \* SyncAllAirports run for caller c
    chunk,          \* chunk[c]: Seq of the processChunk tasks of run c
    sent,           \* history: values sent on resultCh and errCh of job c
    accepted,       \* history: jobs in the order each queue accepted them
    started         \* history: jobs in the order each worker started them

vars == <<store, env, dirComplete, failures, syncQueue, syncAllQueue, resultCh,
          errCh, caller, syncWorker, syncAllWorker, one, run, chunk, sent,
          accepted, started>>

envVars == <<env, dirComplete>>
queueVars == <<syncQueue, syncAllQueue, resultCh, errCh, sent, accepted, started>>
workerVars == <<syncWorker, syncAllWorker>>

(* ------------------------- the environment ---------------------------- *)

\* The failed calls are counted, and at most MaxFailures calls fail.  Under
\* env = "traced" the chunk tasks also keep the history of their writes.
Budgeted == env \in {"budget", "traced"}

\* The outcomes (TRUE: success) a remote or store call can have now.
CallOutcomes ==
    IF env = "allfail" THEN {FALSE}
    ELSE IF env = "nofail" THEN {TRUE}
    ELSE IF Budgeted /\ failures >= MaxFailures THEN {TRUE}
    ELSE {TRUE, FALSE}

\* The outcomes of the read that opens SyncAllAirports: env = "allfail" is
\* about the calls made for a record set, so the read itself may succeed.
ReadOutcomes == IF env = "allfail" THEN {TRUE, FALSE} ELSE CallOutcomes

Counted(ok) == IF Budgeted /\ ~ok THEN failures + 1 ELSE failures

(* ------------------------------ records ------------------------------- *)

\* The empty Weather of a record that was never synced, and of the records of
\* the directory.
NoWeather == 0

\* A domain.Airport: its identifier, whether every descriptive attribute is
\* set (the needsAirportFetch test is the negation of complete), and its
\* weather text.
Airport(faa, complete) == [faa |-> faa, complete |-> complete, weather |-> NoWeather]

\* A nil *domain.Airport.
NilAirport == Airport(-1, FALSE)

\* var airport domain.Airport: the zero value, which the directory helper
\* returns for an identifier the provider does not list.
ZeroAirport == Airport(NoFaa, FALSE)

\* A test that finds every record incomplete.
AlwaysFetch(a) == TRUE

\* needsAirportFetch := airport.SiteNumber == "" || ... || airport.Longitude == ""
needsAirportFetch(a) == ~a.complete

(* ----------------------------- RecordStore ---------------------------- *)

\* SELECT ... FROM airport WHERE faa = $1: the row, or nil for sql.ErrNoRows.
GetAirportByFAA(st, faa) ==
    IF \E i \in DOMAIN st : st[i].faa = faa
    THEN st[CHOOSE i \in DOMAIN st : st[i].faa = faa]
    ELSE NilAirport

\* An UPDATE that reports one row whatever it matched.
RowsAffectedAlways(st, a) == 1

\* UPDATE airport SET ... WHERE faa = $1: the rows affected.
RowsAffected(st, a) == Cardinality({i \in DOMAIN st : st[i].faa = a.faa})

\* A store whose update adds the record as a new row.
UpdateAsInsert(st, a) == Append(st, a)

\* The table after the UPDATE: the identifier is the key and is not written.
UpdateAirport(st, a) ==
    [i \in DOMAIN st |-> IF st[i].faa = a.faa THEN a ELSE st[i]]

(* ---------------------------- RemoteGateway --------------------------- *)

\* fetchAirportFromAviationAPI on success: the provider's record, or the
\* zero Airport when the response holds no entry for the identifier.
DirectoryRecords(faa) == {Airport(faa, dirComplete), ZeroAirport}

\* fetchAirportsFromAviationAPI on success: one record for every identifier
\* the provider recognises, in the iteration order of a Go map.
InjectiveSeqs(S) ==
    {q \in UNION {[1..m -> S] : m \in 0..Cardinality(S)} :
        \A i, j \in DOMAIN q : i # j => q[i] # q[j]}

BatchResults(ids) ==
    {[i \in DOMAIN p |-> Airport(p[i], dirComplete)] : p \in InjectiveSeqs(Range(ids))}

\* fetchWeatherFromWeatherAPI on success: the text of the current condition.
\* The texts are told apart in traced runs only.
WeatherTexts == IF env = "traced" THEN 1..MaxWeather ELSE {NoWeather}

(* -------------------------- SyncAirportByFAA -------------------------- *)

\* An error value: "nil", or the operation that failed.
NoResult == [airport |-> NilAirport, err |-> "nil"]

\* A run of SyncAirportByFAA: where it is, its argument, its local airport,
\* and what it returned.  calls is history: the calls it made, in order.
\* So are oks, stored and writes: whether each of these calls returned no
\* error, the record its store lookup returned, and its store updates.
IdleOne == [pc |-> "none", faa |-> NoFaa, airport |-> NilAirport, ret |-> NoResult,
            calls |-> <<>>, oks |-> <<>>, stored |-> NilAirport, writes |-> 0]

BeginOne(faa) == [IdleOne EXCEPT !.pc = "get", !.faa = faa]

\* A run that goes on to the store update after a failed weather lookup.
ReturnUnlessWeather(f, a, err) ==
    IF err = "failed to fetch weather" THEN [f EXCEPT !.pc = "update"]
    ELSE [f EXCEPT !.pc = "done", !.ret = [airport |-> a, err |-> err]]

\* return airport, err
ReturnOne(f, a, err) ==
    [f EXCEPT !.pc = "done", !.ret = [airport |-> a, err |-> err]]

OneActive(f) == f.pc \notin {"none", "done"}

\* A run that goes on with whatever the store lookup returned.
AfterGetUnchecked(f, a) == [f EXCEPT !.airport = a, !.pc = "fetch"]

\* if airport == nil { return nil, "no airport found" }, and needsAirportFetch.
AfterGet(f, a) ==
    IF a = NilAirport THEN ReturnOne(f, NilAirport, "no airport found")
    ELSE [f EXCEPT !.airport = a,
                   !.pc = IF needsAirportFetch(a) THEN "fetch" ELSE "weather"]

\* One step of a run f of SyncAirportByFAA: the set of [frame, store,
\* failures, ok, wrote, text] it can lead to (ok: the step's call returned no
\* error; wrote: it updated the store; text: the weather text the call
\* returned, if any).
SyncAirportByFAAStep(f) ==
    LET Out(g, st, ok) ==
            [frame |-> [g EXCEPT !.calls = Append(f.calls, f.pc),
                                 !.oks = Append(f.oks, ok),
                                 !.writes = IF f.pc = "update" /\ ok
                                            THEN f.writes + 1 ELSE f.writes],
             store |-> st, failures |-> Counted(ok),
             ok |-> ok, wrote |-> f.pc = "update" /\ ok, text |-> NoWeather]
    IN
    CASE f.pc = "get" ->
           \* airport, err := s.repo.GetAirportByFAA(faa)
           {Out(IF ~ok THEN ReturnOne(f, NilAirport, "failed to get airport")
                ELSE [AfterGet(f, GetAirportByFAA(store, f.faa)) EXCEPT
                          !.stored = GetAirportByFAA(store, f.faa)],
                store, ok) : ok \in CallOutcomes}
      [] f.pc = "fetch" ->
           \* airportData, err := s.FetchAirportFromAviationAPI(faa)
           UNION {IF ~ok
                  THEN {Out(ReturnOne(f, NilAirport, "failed to fetch airport"), store, ok)}
                  ELSE {Out([f EXCEPT !.airport = d, !.pc = "weather"], store, ok) :
                            d \in DirectoryRecords(f.faa)} : ok \in CallOutcomes}
      [] f.pc = "weather" ->
           \* weatherText, err := s.FetchWeatherFromWeatherAPI(airport.City)
           \* airport.Weather = weatherText
           UNION {IF ~ok
                  THEN {Out(ReturnOne(f, NilAirport, "failed to fetch weather"), store, ok)}
                  ELSE {[Out([f EXCEPT !.pc = "update", !.airport.weather = w],
                             store, ok) EXCEPT !.text = w] : w \in WeatherTexts} :
                      ok \in CallOutcomes}
      [] f.pc = "update" ->
           \* err := s.repo.UpdateAirport(airport)
           {IF ~ok \/ RowsAffected(store, f.airport) = 0
            THEN Out(ReturnOne(f, NilAirport, "failed to update airport"), store, FALSE)
            ELSE Out(ReturnOne(f, f.airport, "nil"), UpdateAirport(store, f.airport), ok) :
                ok \in CallOutcomes}
      [] OTHER -> {}

(* --------------------------- processChunk ----------------------------- *)

\* A split that asks the directory for every record of the chunk.
AllFAA(ch) == [i \in DOMAIN ch |-> ch[i].faa]

\* The identifiers of the incomplete records of a chunk, in chunk order.
IncompleteFAA(ch) ==
    LET inc == SelectSeq(ch, LAMBDA a : needsAirportFetch(a))
    IN  [i \in DOMAIN inc |-> inc[i].faa]

\* The complete records of a chunk, in chunk order.
CompleteAirports(ch) == SelectSeq(ch, LAMBDA a : ~needsAirportFetch(a))

\* The pc after the batch fetch and the fallback: the weather loop over
\* allAirports, or the send of the result when allAirports is empty.
AfterFetch(all) == IF Len(all) > 0 THEN "weather" ELSE "send"

\* A merge that keeps the fetched records only.
MergeFetchedOnly(t, fetched) ==
    [t EXCEPT !.fetchedAirports = fetched,
              !.allAirports = fetched,
              !.i = 1,
              !.pc = AfterFetch(fetched)]

\* A merge that puts the complete records first.
MergeCompleteFirst(t, fetched) ==
    [t EXCEPT !.fetchedAirports = fetched,
              !.allAirports = t.completeAirports \o fetched,
              !.i = 1,
              !.pc = AfterFetch(t.completeAirports \o fetched)]

\* allAirports := append(fetchedAirports, completeAirports...)
Merge(t, fetched) ==
    [t EXCEPT !.fetchedAirports = fetched,
              !.allAirports = fetched \o t.completeAirports,
              !.i = 1,
              !.pc = AfterFetch(fetched \o t.completeAirports)]

\* go processChunk(chunk): the task after its split loop.  The fields from
\* okCalls on are history: whether a call of the task succeeded, the store
\* updates it made, the identifiers its batch lookup did not return, whether
\* it entered the fallback, its backoff waits, the identifiers the fallback
\* tried and how many it recovered and failed, its weather lookups, the
\* identifiers it wrote to the store, and the identifiers whose weather it
\* looked up.  asked is history too: the identifier list of its last batch
\* lookup.  So is got: the text its latest weather lookup returned, NoWeather
\* when that lookup failed.
NewChunk(ch) ==
    LET t == [pc |-> "batch", chunk |-> ch,
              incompleteFAA |-> IncompleteFAA(ch),
              completeAirports |-> CompleteAirports(ch),
              fetchedAirports |-> <<>>, batchErr |-> FALSE, attempt |-> 0,
              batchCalls |-> 0, i |-> 1, allAirports |-> <<>>,
              updated |-> 0, errors |-> 0, one |-> IdleOne,
              okCalls |-> FALSE, writes |-> 0, omitted |-> 0,
              fellBack |-> FALSE, backoffs |-> 0, tried |-> <<>>,
              recovered |-> 0, failed |-> 0, weatherCalls |-> 0, written |-> <<>>,
              looked |-> <<>>, asked |-> <<>>, got |-> NoWeather]
    IN  IF Len(t.incompleteFAA) > 0 THEN t ELSE Merge(t, <<>>)

\* The task after its goroutine returned: its locals are gone; what it
\* counted is kept for the properties of the run.
ExitChunk(t) ==
    [t EXCEPT !.pc = "done", !.chunk = <<>>, !.incompleteFAA = <<>>,
              !.completeAirports = <<>>, !.fetchedAirports = <<>>,
              !.allAirports = <<>>, !.i = 0]

\* History: the identifiers written by task t, after a write to faa.
Written(t, faa) == IF env = "traced" THEN Append(t.written, faa) ELSE t.written

\* History: the identifiers whose weather task t looked up, after a lookup
\* for faa.
Looked(t, faa) == IF env = "traced" THEN Append(t.looked, faa) ELSE t.looked

\* A weather loop that goes on to the store update whatever the lookup
\* returned.
AfterWeatherUnchecked(t, ok, w) ==
    [t EXCEPT !.pc = "update", !.weatherCalls = t.weatherCalls + 1,
              !.looked = Looked(t, t.allAirports[t.i].faa),
              !.got = IF ok THEN w ELSE NoWeather,
              !.allAirports[t.i].weather = IF ok THEN w ELSE NoWeather]

\* A weather loop that ends after its current record.
EndLoop(t) == [t EXCEPT !.i = t.i + 1, !.pc = "send"]

\* The loop step of the weather loop: the next record, or the send.
NextRecord(t) ==
    IF t.i < Len(t.allAirports)
    THEN [t EXCEPT !.i = t.i + 1, !.pc = "weather"]
    ELSE [t EXCEPT !.i = t.i + 1, !.pc = "send"]

\* A fallback loop that stops at the first failed single-record sync.
NextFallbackUntilFailure(t) ==
    IF t.i < Len(t.incompleteFAA) /\ t.one.ret.err = "nil"
    THEN [t EXCEPT !.i = t.i + 1, !.one = BeginOne(t.incompleteFAA[t.i + 1]),
                   !.tried = Append(t.tried, t.incompleteFAA[t.i + 1])]
    ELSE Merge([t EXCEPT !.one = IdleOne], t.fetchedAirports)

\* A fallback loop that hands the identifiers it tried on to the weather loop.
NextFallbackKeeping(t) ==
    IF t.i < Len(t.incompleteFAA)
    THEN [t EXCEPT !.i = t.i + 1, !.one = BeginOne(t.incompleteFAA[t.i + 1]),
                   !.tried = Append(t.tried, t.incompleteFAA[t.i + 1])]
    ELSE Merge([t EXCEPT !.one = IdleOne],
               [j \in DOMAIN t.tried |-> Airport(t.tried[j], TRUE)])

\* if err != nil { errors++; continue }; allAirports[i].Weather = weatherText
AfterWeather(t, ok, w) ==
    IF ok THEN [t EXCEPT !.pc = "update", !.weatherCalls = t.weatherCalls + 1,
                         !.looked = Looked(t, t.allAirports[t.i].faa),
                         !.got = w,
                         !.allAirports[t.i].weather = w]
    ELSE NextRecord([t EXCEPT !.errors = t.errors + 1,
                              !.weatherCalls = t.weatherCalls + 1,
                              !.looked = Looked(t, t.allAirports[t.i].faa),
                              !.got = NoWeather])

\* The loop step of the fallback loop: the single-record sync of the next
\* incomplete identifier, or the merge.
NextFallback(t) ==
    IF t.i < Len(t.incompleteFAA)
    THEN [t EXCEPT !.i = t.i + 1, !.one = BeginOne(t.incompleteFAA[t.i + 1]),
                   !.tried = Append(t.tried, t.incompleteFAA[t.i + 1])]
    ELSE Merge([t EXCEPT !.one = IdleOne], t.fetchedAirports)

\* A loop of one attempt.
NoRetry(attempt) == FALSE

\* A loop of three attempts.
RetryTwice(attempt) == attempt + 1 < maxAttempts + 1

\* for attempt := 0; attempt < 2; attempt++: after a failed attempt, the loop
\* makes another one.
Retry(attempt) == attempt + 1 < maxAttempts

\* if attempt == 0 { time.Sleep(1 * time.Second) }: the backoff waits after
\* a failed attempt.
Backoff(t) == IF t.attempt = 0 THEN t.backoffs + 1 ELSE t.backoffs

\* One step of chunk task t up to the send of its result: the set of
\* [task, store, failures] it can lead to.
ProcessChunkStep(t) ==
    LET Out(u, st, ok) ==
            [task |-> [u EXCEPT !.okCalls = t.okCalls \/ ok],
             store |-> st, failures |-> Counted(ok)]
    IN
    CASE t.pc = "batch" ->
           \* fetchedAirports, batchErr = s.FetchAirportsFromAviationAPI(incompleteFAA)
           UNION {IF ok
                  THEN {Out(Merge([t EXCEPT !.batchErr = FALSE,
                                            !.batchCalls = t.batchCalls + 1,
                                            !.asked = t.incompleteFAA,
                                            !.omitted = Len(t.incompleteFAA) - Len(r)], r),
                            store, ok) : r \in BatchResults(t.incompleteFAA)}
                  ELSE IF Retry(t.attempt)
                  THEN {Out([t EXCEPT !.batchErr = TRUE, !.attempt = t.attempt + 1,
                                      !.batchCalls = t.batchCalls + 1,
                                      !.asked = t.incompleteFAA,
                                      !.backoffs = Backoff(t)],
                            store, ok)}
                  ELSE {Out([t EXCEPT !.batchErr = TRUE, !.attempt = t.attempt + 1,
                                      !.batchCalls = t.batchCalls + 1,
                                      !.asked = t.incompleteFAA,
                                      !.backoffs = Backoff(t),
                                      !.pc = "fallback", !.i = 1,
                                      !.fellBack = TRUE,
                                      !.tried = <<t.incompleteFAA[1]>>,
                                      !.one = BeginOne(t.incompleteFAA[1])],
                            store, ok)} : ok \in CallOutcomes}
      [] t.pc = "fallback" /\ OneActive(t.one) ->
           \* airport, err := s.SyncAirportByFAA(faa), one call of it
           {[task |-> [t EXCEPT !.one = n.frame, !.okCalls = t.okCalls \/ n.ok,
                                !.writes = IF n.wrote THEN t.writes + 1 ELSE t.writes,
                                !.written = IF n.wrote THEN Written(t, t.one.faa)
                                            ELSE t.written,
                                !.looked = IF t.one.pc = "weather"
                                           THEN Looked(t, t.one.faa) ELSE t.looked,
                                !.got = IF t.one.pc = "weather" THEN n.text ELSE t.got],
             store |-> n.store, failures |-> n.failures] :
                n \in SyncAirportByFAAStep(t.one)}
      [] t.pc = "fallback" /\ t.one.pc = "done" ->
           \* errors++ or updated++, time.Sleep, the next identifier
           {[task |-> NextFallback(IF t.one.ret.err # "nil"
                                   THEN [t EXCEPT !.errors = t.errors + 1,
                                                  !.failed = t.failed + 1]
                                   ELSE [t EXCEPT !.updated = t.updated + 1,
                                                  !.recovered = t.recovered + 1]),
             store |-> store, failures |-> failures]}
      [] t.pc = "weather" ->
           \* weatherText, err := s.FetchWeatherFromWeatherAPI(allAirports[i].City)
           {Out(AfterWeather(t, ok, w), store, ok) :
                ok \in CallOutcomes, w \in WeatherTexts}
      [] t.pc = "update" ->
           \* err := s.repo.UpdateAirport(&allAirports[i])
           {IF ~ok \/ RowsAffected(store, t.allAirports[t.i]) = 0
            THEN Out(NextRecord([t EXCEPT !.errors = t.errors + 1]), store, FALSE)
            ELSE Out(NextRecord([t EXCEPT !.updated = t.updated + 1,
                                          !.writes = t.writes + 1,
                                          !.written = Written(t, t.allAirports[t.i].faa)]),
                     UpdateAirport(store, t.allAirports[t.i]), ok) :
                ok \in CallOutcomes}
      [] OTHER -> {}

(* --------------------------- SyncAllAirports -------------------------- *)

NoCount == [updated |-> 0, err |-> "nil"]

\* A run of SyncAllAirports: where it is, the records it read, its result
\* channel, its loop index and its totals, and what it returned.  read is
\* history: how its call of GetAllAirports ended ("none": not made yet).
\* So is collected: the tasks whose results it received, in that order.
IdleRun == [pc |-> "none", airports |-> <<>>, numChunks |-> 0, resultCh |-> <<>>,
            i |-> 0, totalUpdated |-> 0, totalErrors |-> 0, ret |-> NoCount,
            read |-> "none", collected |-> <<>>]

BeginRun == [IdleRun EXCEPT !.pc = "getall"]

RunActive(r) == r.pc \notin {"none", "done"}

ReturnRun(r, n, err) == [r EXCEPT !.pc = "done", !.ret = [updated |-> n, err |-> err]]

\* A chunk count that leaves out the last, shorter chunk.
NumChunksFloor(n) == n \div chunkSize

\* numChunks := (len(airports) + chunkSize - 1) / chunkSize
NumChunks(n) == (n + chunkSize - 1) \div chunkSize

\* A policy that reports a failure as soon as one record failed.
StrictOutcome(r, totalUpdated, totalErrors) ==
    IF totalErrors > 0
    THEN ReturnRun(r, 0, "failed to sync all airports")
    ELSE ReturnRun(r, totalUpdated, "nil")

\* A policy that never reports a failure.
LenientOutcome(r, totalUpdated, totalErrors) == ReturnRun(r, totalUpdated, "nil")

\* A policy that reports the count together with the error.
CountWithError(r, totalUpdated, totalErrors) ==
    IF totalErrors > 0
    THEN ReturnRun(r, totalUpdated, "failed to sync all airports")
    ELSE ReturnRun(r, totalUpdated, "nil")

\* A policy that reports a failure when at least as many records failed as
\* were updated.
MajorityOutcome(r, totalUpdated, totalErrors) ==
    IF totalErrors > 0 /\ totalErrors >= totalUpdated
    THEN ReturnRun(r, 0, "failed to sync all airports")
    ELSE ReturnRun(r, totalUpdated, "nil")

\* The outcome policy at the end of SyncAllAirports.
Outcome(r, totalUpdated, totalErrors) ==
    IF totalErrors > 0 /\ totalUpdated = 0
    THEN ReturnRun(r, 0, "failed to sync all airports")
    ELSE ReturnRun(r, totalUpdated, "nil")

\* A read without the test for an empty record set.
GetAllStepUnchecked(r, ok) ==
    IF ~ok THEN ReturnRun(r, 0, "failed to get airports")
    ELSE [r EXCEPT !.airports = store, !.numChunks = NumChunks(Len(store)),
                   !.pc = "launch", !.i = 0]

\* A read whose error is dropped: the run goes on with the records.
GetAllStepIgnoreError(r, ok) ==
    IF Len(store) = 0 THEN ReturnRun(r, 0, "no airports to sync")
    ELSE [r EXCEPT !.airports = store, !.numChunks = NumChunks(Len(store)),
                   !.pc = "launch", !.i = 0]

\* airports, err := s.repo.GetAllAirports() and the two early returns.
GetAllStep(r, ok) ==
    IF ~ok THEN ReturnRun(r, 0, "failed to get airports")
    ELSE IF Len(store) = 0 THEN ReturnRun(r, 0, "no airports to sync")
    ELSE [r EXCEPT !.airports = store, !.numChunks = NumChunks(Len(store)),
                   !.pc = "launch", !.i = 0]

\* A chunk whose upper bound is one short: airports[i:end-1].
ShortChunkAt(airports, i) == SubSeq(airports, i + 1, Min(i + chunkSize, Len(airports)) - 1)

\* A chunk with no upper bound: airports[i:].
ChunkToEnd(airports, i) == SubSeq(airports, i + 1, Len(airports))

\* The chunk launched at offset i: airports[i:min(i+chunkSize, len(airports))]
ChunkAt(airports, i) == SubSeq(airports, i + 1, Min(i + chunkSize, Len(airports)))

\* One turn of the launch loop.
LaunchStep(r) ==
    [r EXCEPT !.i = IF r.i + chunkSize < Len(r.airports) THEN r.i + chunkSize ELSE 0,
              !.pc = IF r.i + chunkSize < Len(r.airports) THEN "launch" ELSE "collect"]

\* A collect loop that stops at the first result.
CollectFirstOnly(r) ==
    LET res == Head(r.resultCh)
        u == [r EXCEPT !.resultCh = Tail(r.resultCh), !.i = r.i + 1,
                       !.totalUpdated = r.totalUpdated + res.updated,
                       !.totalErrors = r.totalErrors + res.errors]
    IN  Outcome(u, u.totalUpdated, u.totalErrors)

\* A collect loop that keeps the counts of the result it received last.
CollectLatest(r) ==
    LET res == Head(r.resultCh)
        u == [r EXCEPT !.resultCh = Tail(r.resultCh), !.i = r.i + 1,
                       !.totalUpdated = res.updated,
                       !.totalErrors = res.errors]
    IN  IF u.i < u.numChunks THEN u ELSE Outcome(u, u.totalUpdated, u.totalErrors)

\* res := <-resultCh and the totals; after the last result, the outcome.
CollectStep(r) ==
    LET res == Head(r.resultCh)
        u == [r EXCEPT !.resultCh = Tail(r.resultCh), !.i = r.i + 1,
                       !.totalUpdated = r.totalUpdated + res.updated,
                       !.totalErrors = r.totalErrors + res.errors]
    IN  IF u.i < u.numChunks THEN u ELSE Outcome(u, u.totalUpdated, u.totalErrors)

(* ------------------------------ callers ------------------------------- *)

\* A value pair of either sync operation: (record, error) or (count, error).
NoReturn == [airport |-> NilAirport, updated |-> 0, err |-> "nil"]

\* A caller goroutine: where it is, its call and what the call returned.  ran
\* is history: what the sync operation run for its job returned to the worker.
IdleCaller == [pc |-> "idle", op |-> "none", faa |-> NoFaa, ret |-> NoReturn,
               ran |-> NoReturn]

\* The identifiers callers ask for; those above Len(store) are not stored.
FaaInputs == 1..MaxStore

\* Callers are interchangeable: they are numbered in the order of their calls.
MayCall(c) ==
    caller[c].pc = "idle" /\ \A d \in DOMAIN caller : d < c => caller[d].pc # "idle"

\* A channel whose buffer has no bound.
CanSendAlways(ch, cap) == TRUE

\* A send on a buffered channel of capacity cap can proceed.
CanSend(ch, cap) == Len(ch) < cap

\* A caller that waits on its result channel only.
ResultOnly(rc, ec) == IF rc # <<>> THEN {"resultCh"} ELSE {}

\* select { case v := <-job.resultCh: ... case err := <-job.errCh: ... }: the
\* cases that can proceed.
SelectReply(rc, ec) ==
    (IF rc # <<>> THEN {"resultCh"} ELSE {}) \cup (IF ec # <<>> THEN {"errCh"} ELSE {})

\* SyncAirportQueued up to s.syncQueue <- job.
SyncAirportQueued(c, faa) ==
    /\ MayCall(c)
    /\ CanSend(syncQueue, QueueCap)
    /\ syncQueue' = Append(syncQueue, c)
    /\ accepted' = [accepted EXCEPT !.sync = Append(@, c)]
    /\ caller' = [caller EXCEPT ![c] = [@ EXCEPT !.pc = "wait",
                                                 !.op = "SyncAirportQueued",
                                                 !.faa = faa]]
    /\ UNCHANGED <<store, envVars, failures, syncAllQueue, resultCh, errCh,
                   workerVars, one, run, chunk, sent, started>>

\* The select of SyncAirportQueued: the reply and the return.
SyncAirportQueuedReturn(c) ==
    /\ caller[c].pc = "wait"
    /\ caller[c].op = "SyncAirportQueued"
    /\ \E case \in SelectReply(resultCh[c], errCh[c]) :
          IF case = "resultCh"
          THEN /\ caller' = [caller EXCEPT ![c] = [@ EXCEPT !.pc = "done",
                                 !.ret = [@ EXCEPT !.airport = Head(resultCh[c])]]]
               /\ resultCh' = [resultCh EXCEPT ![c] = Tail(@)]
               /\ UNCHANGED errCh
          ELSE /\ caller' = [caller EXCEPT ![c] = [@ EXCEPT !.pc = "done",
                                 !.ret = [@ EXCEPT !.err = Head(errCh[c])]]]
               /\ errCh' = [errCh EXCEPT ![c] = Tail(@)]
               /\ UNCHANGED resultCh
    /\ UNCHANGED <<store, envVars, failures, syncQueue, syncAllQueue, workerVars,
                   one, run, chunk, sent, accepted, started>>

\* SyncAllAirportsQueued up to s.syncAllQueue <- job.
SyncAllAirportsQueued(c) ==
    /\ MayCall(c)
    /\ CanSend(syncAllQueue, QueueCap)
    /\ syncAllQueue' = Append(syncAllQueue, c)
    /\ accepted' = [accepted EXCEPT !.all = Append(@, c)]
    /\ caller' = [caller EXCEPT ![c] = [@ EXCEPT !.pc = "wait",
                                                 !.op = "SyncAllAirportsQueued"]]
    /\ UNCHANGED <<store, envVars, failures, syncQueue, resultCh, errCh,
                   workerVars, one, run, chunk, sent, started>>

\* The select of SyncAllAirportsQueued: the reply and the return.
SyncAllAirportsQueuedReturn(c) ==
    /\ caller[c].pc = "wait"
    /\ caller[c].op = "SyncAllAirportsQueued"
    /\ \E case \in SelectReply(resultCh[c], errCh[c]) :
          IF case = "resultCh"
          THEN /\ caller' = [caller EXCEPT ![c] = [@ EXCEPT !.pc = "done",
                                 !.ret = [@ EXCEPT !.updated = Head(resultCh[c])]]]
               /\ resultCh' = [resultCh EXCEPT ![c] = Tail(@)]
               /\ UNCHANGED errCh
          ELSE /\ caller' = [caller EXCEPT ![c] = [@ EXCEPT !.pc = "done",
                                 !.ret = [@ EXCEPT !.err = Head(errCh[c])]]]
               /\ errCh' = [errCh EXCEPT ![c] = Tail(@)]
               /\ UNCHANGED resultCh
    /\ UNCHANGED <<store, envVars, failures, syncQueue, syncAllQueue, workerVars,
                   one, run, chunk, sent, accepted, started>>

\* Handler.syncAirportByFAA (POST /sync/{faa}) up to its call of the service.
HandlerSyncAirportByFAA(c, faa) ==
    /\ MayCall(c)
    /\ caller' = [caller EXCEPT ![c] = [@ EXCEPT !.pc = "running",
                                                 !.op = "syncAirportByFAA",
                                                 !.faa = faa]]
    /\ one' = [one EXCEPT ![c] = BeginOne(faa)]
    /\ UNCHANGED <<store, envVars, failures, queueVars, workerVars, run, chunk>>

\* Handler.syncAirportByFAA after the service call returned.
HandlerSyncAirportByFAAReturn(c) ==
    /\ caller[c].pc = "running"
    /\ caller[c].op = "syncAirportByFAA"
    /\ one[c].pc = "done"
    /\ caller' = [caller EXCEPT ![c] = [@ EXCEPT !.pc = "done",
                      !.ret = [@ EXCEPT !.airport = one[c].ret.airport,
                                        !.err = one[c].ret.err]]]
    /\ one' = [one EXCEPT ![c] = IdleOne]
    /\ UNCHANGED <<store, envVars, failures, queueVars, workerVars, run, chunk>>

\* Handler.syncAllAirports (POST /sync) up to its call of the service.
HandlerSyncAllAirports(c) ==
    /\ MayCall(c)
    /\ caller' = [caller EXCEPT ![c] = [@ EXCEPT !.pc = "running",
                                                 !.op = "syncAllAirports"]]
    /\ run' = [run EXCEPT ![c] = BeginRun]
    /\ UNCHANGED <<store, envVars, failures, queueVars, workerVars, one, chunk>>

\* Handler.syncAllAirports after the service call returned.
HandlerSyncAllAirportsReturn(c) ==
    /\ caller[c].pc = "running"
    /\ caller[c].op = "syncAllAirports"
    /\ run[c].pc = "done"
    /\ caller' = [caller EXCEPT ![c] = [@ EXCEPT !.pc = "done",
                      !.ret = [@ EXCEPT !.updated = run[c].ret.updated,
                                        !.err = run[c].ret.err]]]
    /\ run' = [run EXCEPT ![c] = IdleRun]
    /\ chunk' = [chunk EXCEPT ![c] = <<>>]
    /\ UNCHANGED <<store, envVars, failures, queueVars, workerVars, one>>

\* Handler.updateAirport (PUT /airport): the decoded record is handed to
\* Service.UpdateAirport, which is repo.UpdateAirport; any error is answered
\* with "Airport Not Found".
HandlerUpdateAirport(c, faa, complete) ==
    /\ MayCall(c)
    /\ \E ok \in CallOutcomes :
         LET done == ok /\ RowsAffected(store, Airport(faa, complete)) > 0 IN
         /\ store' = IF done THEN UpdateAirport(store, Airport(faa, complete)) ELSE store
         /\ failures' = Counted(ok)
         /\ caller' = [caller EXCEPT ![c] = [@ EXCEPT !.pc = "done",
                           !.op = "updateAirport",
                           !.faa = faa,
                           !.ret = [@ EXCEPT !.airport = IF done THEN Airport(faa, complete)
                                                         ELSE NilAirport,
                                             !.err = IF done THEN "nil"
                                                     ELSE "Airport Not Found"]]]
    /\ UNCHANGED <<envVars, queueVars, workerVars, one, run, chunk>>

(* ------------------------------ workers ------------------------------- *)

IdleWorker == [pc |-> "idle", job |-> 0]

\* A queue that hands out its newest job first.
DequeueNewest(q) == [job |-> q[Len(q)], rest |-> SubSeq(q, 1, Len(q) - 1)]

\* A receive that leaves the job in the queue.
DequeuePeek(q) == [job |-> Head(q), rest |-> q]

\* job := <-queue: the job received and the queue it leaves.
Dequeue(q) == [job |-> Head(q), rest |-> Tail(q)]

\* A worker that sends the value whatever the error is.
ReplyValueOnly(rc, ec, value, err) == [resultCh |-> Append(rc, value), errCh |-> ec]

\* A worker that sends on both reply channels.
ReplyOnBoth(rc, ec, value, err) ==
    [resultCh |-> Append(rc, value), errCh |-> Append(ec, err)]

\* if err != nil { job.errCh <- err } else { job.resultCh <- value }: the two
\* reply channels after the sends.
Reply(rc, ec, value, err) ==
    IF err # "nil"
    THEN [resultCh |-> rc, errCh |-> Append(ec, err)]
    ELSE [resultCh |-> Append(rc, value), errCh |-> ec]

\* Reply channels without a buffer: a send does not complete by itself.
FitsUnbuffered(r) == Len(r.resultCh) <= 0 /\ Len(r.errCh) <= 0

\* The sends of a reply fit the buffers of the channels.
Fits(r) == Len(r.resultCh) <= ReplyCap /\ Len(r.errCh) <= ReplyCap

\* History: what job's channels were sent, after a reply r.
Sent(job, r) ==
    [sent EXCEPT ![job] = [result |-> @.result + Len(r.resultCh) - Len(resultCh[job]),
                           err |-> @.err + Len(r.errCh) - Len(errCh[job])]]

\* A worker that returns from its loop after a job that ended in an error.
StopOnError(err) == IF err # "nil" THEN [pc |-> "stopped", job |-> 0] ELSE IdleWorker

\* The worker after its reply: the end of the loop body, whatever the job
\* returned, and back to the receive.
AfterReply(err) == IdleWorker

\* A worker that receives the next job without waiting for the current one.
ReceiveAnyTime(w) == w.pc \in {"idle", "running"}

\* Two workers that share one lock: a worker receives only when neither runs.
BothAtReceive(w) == w.pc = "idle" /\ syncWorker.pc = "idle" /\ syncAllWorker.pc = "idle"

\* for job := range queue: the worker is at the receive.
AtReceive(w) == w.pc = "idle"

\* runSyncWorker: the receive of the next job and the call of SyncAirportByFAA.
SyncWorkerReceive ==
    /\ AtReceive(syncWorker)
    /\ syncQueue # <<>>
    /\ syncWorker' = [pc |-> "running", job |-> Dequeue(syncQueue).job]
    /\ syncQueue' = Dequeue(syncQueue).rest
    /\ started' = [started EXCEPT !.sync = Append(@, Dequeue(syncQueue).job)]
    /\ one' = [one EXCEPT ![Dequeue(syncQueue).job] =
                  BeginOne(caller[Dequeue(syncQueue).job].faa)]
    /\ UNCHANGED <<store, envVars, failures, syncAllQueue, resultCh, errCh, caller,
                   syncAllWorker, run, chunk, sent, accepted>>

\* runSyncWorker: job.errCh <- err or job.resultCh <- airport.
SyncWorkerReply ==
    LET job == syncWorker.job
        r == Reply(resultCh[job], errCh[job], one[job].ret.airport, one[job].ret.err)
    IN
    /\ syncWorker.pc = "running"
    /\ one[job].pc = "done"
    /\ Fits(r)
    /\ resultCh' = [resultCh EXCEPT ![job] = r.resultCh]
    /\ errCh' = [errCh EXCEPT ![job] = r.errCh]
    /\ sent' = Sent(job, r)
    /\ syncWorker' = AfterReply(one[job].ret.err)
    /\ caller' = [caller EXCEPT ![job].ran = [NoReturn EXCEPT
                                                  !.airport = one[job].ret.airport,
                                                  !.err = one[job].ret.err]]
    /\ one' = [one EXCEPT ![job] = IdleOne]
    /\ UNCHANGED <<store, envVars, failures, syncQueue, syncAllQueue,
                   syncAllWorker, run, chunk, accepted, started>>

\* runSyncAllWorker: the receive of the next job and the call of SyncAllAirports.
SyncAllWorkerReceive ==
    /\ AtReceive(syncAllWorker)
    /\ syncAllQueue # <<>>
    /\ syncAllWorker' = [pc |-> "running", job |-> Dequeue(syncAllQueue).job]
    /\ syncAllQueue' = Dequeue(syncAllQueue).rest
    /\ started' = [started EXCEPT !.all = Append(@, Dequeue(syncAllQueue).job)]
    /\ run' = [run EXCEPT ![Dequeue(syncAllQueue).job] = BeginRun]
    /\ UNCHANGED <<store, envVars, failures, syncQueue, resultCh, errCh, caller,
                   syncWorker, one, chunk, sent, accepted>>

\* runSyncAllWorker: job.errCh <- err or job.resultCh <- updated.
SyncAllWorkerReply ==
    LET job == syncAllWorker.job
        r == Reply(resultCh[job], errCh[job], run[job].ret.updated, run[job].ret.err)
    IN
    /\ syncAllWorker.pc = "running"
    /\ run[job].pc = "done"
    /\ Fits(r)
    /\ resultCh' = [resultCh EXCEPT ![job] = r.resultCh]
    /\ errCh' = [errCh EXCEPT ![job] = r.errCh]
    /\ sent' = Sent(job, r)
    /\ syncAllWorker' = AfterReply(run[job].ret.err)
    /\ caller' = [caller EXCEPT ![job].ran = [NoReturn EXCEPT
                                                  !.updated = run[job].ret.updated,
                                                  !.err = run[job].ret.err]]
    /\ run' = [run EXCEPT ![job] = IdleRun]
    /\ chunk' = [chunk EXCEPT ![job] = <<>>]
    /\ UNCHANGED <<store, envVars, failures, syncQueue, syncAllQueue,
                   syncWorker, one, accepted, started>>

(* ------------------- steps of the running operations ------------------ *)

\* One call made by the run of SyncAirportByFAA for caller c, by the
\* goroutine that runs it (the sync worker or the request's handler).
SyncAirportByFAACall(c) ==
    /\ OneActive(one[c])
    /\ \E n \in SyncAirportByFAAStep(one[c]) :
          /\ one' = [one EXCEPT ![c] = n.frame]
          /\ store' = n.store
          /\ failures' = n.failures
    /\ UNCHANGED <<envVars, queueVars, caller, workerVars, run, chunk>>

\* SyncAllAirports: s.repo.GetAllAirports() and the early returns.
GetAllAirports(c) ==
    /\ run[c].pc = "getall"
    /\ \E ok \in ReadOutcomes :
          /\ run' = [run EXCEPT ![c] = [GetAllStep(run[c], ok) EXCEPT
                                            !.read = IF ok THEN "ok" ELSE "failed"]]
          /\ failures' = Counted(ok)
    /\ UNCHANGED <<store, envVars, queueVars, caller, workerVars, one, chunk>>

\* SyncAllAirports: go processChunk(airports[i:end]).
LaunchChunk(c) ==
    /\ run[c].pc = "launch"
    /\ chunk' = [chunk EXCEPT ![c] = Append(@, NewChunk(ChunkAt(run[c].airports, run[c].i)))]
    /\ run' = [run EXCEPT ![c] = LaunchStep(run[c])]
    /\ UNCHANGED <<store, envVars, failures, queueVars, caller, workerVars, one>>

\* processChunk: one call of chunk task k of run c.
ProcessChunk(c, k) ==
    /\ k \in DOMAIN chunk[c]
    /\ \E n \in ProcessChunkStep(chunk[c][k]) :
          /\ chunk' = [chunk EXCEPT ![c][k] = n.task]
          /\ store' = n.store
          /\ failures' = n.failures
    /\ UNCHANGED <<envVars, queueVars, caller, workerVars, one, run>>

\* processChunk: resultCh <- result{updated, errors}.  The task field of the
\* message is history: the task that sent it.
SendResult(c, k) ==
    /\ k \in DOMAIN chunk[c]
    /\ chunk[c][k].pc = "send"
    /\ CanSend(run[c].resultCh, run[c].numChunks)
    /\ run' = [run EXCEPT ![c].resultCh =
                  Append(@, [updated |-> chunk[c][k].updated,
                             errors |-> chunk[c][k].errors,
                             task |-> k])]
    /\ chunk' = [chunk EXCEPT ![c][k] = ExitChunk(chunk[c][k])]
    /\ UNCHANGED <<store, envVars, failures, queueVars, caller, workerVars, one>>

\* SyncAllAirports: res := <-resultCh, and the return after the last one.
CollectResult(c) ==
    /\ run[c].pc = "collect"
    /\ run[c].resultCh # <<>>
    /\ run' = [run EXCEPT ![c] = [CollectStep(run[c]) EXCEPT
                                     !.collected = Append(run[c].collected,
                                                          Head(run[c].resultCh).task)]]
    /\ UNCHANGED <<store, envVars, failures, queueVars, caller, workerVars, one, chunk>>

(* --------------------------- specifications --------------------------- *)

\* The tables of n records 1..n of which those in inc are incomplete.
Table(n, inc) == [i \in 1..n |-> Airport(i, i \notin inc)]

InitCommon ==
    /\ failures = 0
    /\ syncQueue = <<>>
    /\ syncAllQueue = <<>>
    /\ resultCh = [c \in Callers |-> <<>>]
    /\ errCh = [c \in Callers |-> <<>>]
    /\ syncWorker = IdleWorker
    /\ syncAllWorker = IdleWorker
    /\ one = [c \in Callers |-> IdleOne]
    /\ run = [c \in Callers |-> IdleRun]
    /\ chunk = [c \in Callers |-> <<>>]
    /\ sent = [c \in Callers |-> [result |-> 0, err |-> 0]]
    /\ accepted = [sync |-> <<>>, all |-> <<>>]
    /\ started = [sync |-> <<>>, all |-> <<>>]

\* The service after NewService, over any store of at most MaxStore records.
Init ==
    /\ \E n \in 0..MaxStore : \E inc \in SUBSET (1..n) : store = Table(n, inc)
    /\ env = "any"
    /\ dirComplete \in BOOLEAN
    /\ caller = [c \in Callers |-> IdleCaller]
    /\ InitCommon

\* The steps of the operations in progress, whoever started them.
Running ==
    \/ \E c \in Callers : SyncAirportByFAACall(c)
    \/ \E c \in Callers : GetAllAirports(c)
    \/ \E c \in Callers : LaunchChunk(c)
    \/ \E c \in Callers, k \in 1..NumChunks(Len(store)) : ProcessChunk(c, k)
    \/ \E c \in Callers, k \in 1..NumChunks(Len(store)) : SendResult(c, k)
    \/ \E c \in Callers : CollectResult(c)

\* The queued interface and its two workers.
Queued ==
    \/ \E c \in Callers, faa \in FaaInputs : SyncAirportQueued(c, faa)
    \/ \E c \in Callers : SyncAirportQueuedReturn(c)
    \/ \E c \in Callers : SyncAllAirportsQueued(c)
    \/ \E c \in Callers : SyncAllAirportsQueuedReturn(c)
    \/ SyncWorkerReceive
    \/ SyncWorkerReply
    \/ SyncAllWorkerReceive
    \/ SyncAllWorkerReply

\* The two sync routes of the HTTP handler.
Requests ==
    \/ \E c \in Callers, faa \in FaaInputs : HandlerSyncAirportByFAA(c, faa)
    \/ \E c \in Callers : HandlerSyncAirportByFAAReturn(c)
    \/ \E c \in Callers : HandlerSyncAllAirports(c)
    \/ \E c \in Callers : HandlerSyncAllAirportsReturn(c)

\* The service used through SyncAirportQueued and SyncAllAirportsQueued.
Next == Queued \/ Running

Spec == Init /\ [][Next]_vars

\* Every goroutine that can take a step is scheduled: the system does not
\* stop while a step is possible.
FairSpec == Spec /\ WF_vars(Next)

\* The server: the service behind the HTTP handler.
NextServer == Requests \/ Queued \/ Running

SpecServer == Init /\ [][NextServer]_vars

\* A caller goroutine that makes no call.
NoCaller == [IdleCaller EXCEPT !.pc = "off"]

\* The store sizes of a single run: below one chunk, and from one full chunk on.
RunSizes == (0..MaxRemainder) \cup (chunkSize..(chunkSize + MaxRemainder))

\* The incomplete records of a single-run store: any of a store below one
\* chunk, and any of the first records of the chunks of a larger store.
IncompleteSets(n) ==
    IF n < chunkSize THEN SUBSET (1..n)
    ELSE SUBSET {i \in 1..n : (i - 1) % chunkSize = 0}

\* One call of SyncAllAirports on a store of up to two chunks, where at most
\* MaxFailures calls fail or every call after the first read fails.
InitRun ==
    /\ \E n \in RunSizes : \E inc \in IncompleteSets(n) : store = Table(n, inc)
    /\ env \in {"budget", "allfail"}
    /\ dirComplete \in BOOLEAN
    /\ caller = [c \in Callers |-> IF c = 1 THEN IdleCaller ELSE NoCaller]
    /\ InitCommon

NextRun ==
    \/ \E c \in Callers : HandlerSyncAllAirports(c)
    \/ \E c \in Callers : GetAllAirports(c)
    \/ \E c \in Callers : LaunchChunk(c)
    \/ \E c \in Callers, k \in 1..NumChunks(Len(store)) : ProcessChunk(c, k)
    \/ \E c \in Callers, k \in 1..NumChunks(Len(store)) : SendResult(c, k)
    \/ \E c \in Callers : CollectResult(c)
    \/ \E c \in Callers : HandlerSyncAllAirportsReturn(c)

SpecRun == InitRun /\ [][NextRun]_vars

\* One call of SyncAllAirports on a store below one chunk, where at most
\* MaxFailures calls fail and the writes of the chunk task are recorded.
InitTraced ==
    /\ \E n \in 0..MaxRemainder : \E inc \in SUBSET (1..n) : store = Table(n, inc)
    /\ env = "traced"
    /\ dirComplete \in BOOLEAN
    /\ caller = [c \in Callers |-> IF c = 1 THEN IdleCaller ELSE NoCaller]
    /\ InitCommon

SpecTraced == InitTraced /\ [][NextRun]_vars

\* The read and the launch loop of one call of SyncAllAirports, on a store
\* of up to MaxRecords records, before any chunk task takes a step.
InitLaunch ==
    /\ \E n \in 0..MaxRecords : store = Table(n, {})
    /\ env = "budget"
    /\ dirComplete = TRUE
    /\ caller = [c \in Callers |-> IF c = 1 THEN IdleCaller ELSE NoCaller]
    /\ InitCommon

NextLaunch ==
    \/ \E c \in Callers : HandlerSyncAllAirports(c)
    \/ \E c \in Callers : GetAllAirports(c)
    \/ \E c \in Callers : LaunchChunk(c)

SpecLaunch == InitLaunch /\ [][NextLaunch]_vars

\* The rows a table can hold under the empty identifier: POST /airport
\* stores the decoded record whatever its faa is, the empty string included.
BlankRows == {<<>>, <<Airport(NoFaa, FALSE)>>, <<Airport(NoFaa, TRUE)>>}

\* The single-record sync route of the handler, over a store that may hold a
\* record whose identifier is empty (ORDER BY faa puts it first).
InitBlank ==
    /\ \E blank \in BlankRows, n \in 0..MaxStore : \E inc \in SUBSET (1..n) :
           store = blank \o Table(n, inc)
    /\ env = "any"
    /\ dirComplete \in BOOLEAN
    /\ caller = [c \in Callers |-> IdleCaller]
    /\ InitCommon

NextBlank ==
    \/ \E c \in Callers, faa \in FaaInputs : HandlerSyncAirportByFAA(c, faa)
    \/ \E c \in Callers : SyncAirportByFAACall(c)
    \/ \E c \in Callers : HandlerSyncAirportByFAAReturn(c)

SpecBlank == InitBlank /\ [][NextBlank]_vars

\* The server with its update route: the sync routes of the handler run
\* next to PUT /airport requests, over a store that holds a record.
InitUpdates ==
    /\ \E n \in 1..MaxStore : \E inc \in SUBSET (1..n) : store = Table(n, inc)
    /\ env = "any"
    /\ dirComplete \in BOOLEAN
    /\ caller = [c \in Callers |-> IdleCaller]
    /\ InitCommon

NextUpdates ==
    \/ \E c \in Callers, faa \in FaaInputs, complete \in BOOLEAN :
           HandlerUpdateAirport(c, faa, complete)
    \/ Requests
    \/ Running

SpecUpdates == InitUpdates /\ [][NextUpdates]_vars

\* The goroutines of a burst of calls: more than a queue has room for.
Producers == 1..(QueueCap + MaxExtra)

\* The identifier the producers of a burst ask for.
BurstFaa == 1

\* The calls of a burst are of one kind: that of its first call.
SameKind(op) == caller[1].op \in {"none", op}

\* A burst of queued calls of one kind on an empty store, where no call of
\* the store fails: every job ends at its first read.
InitBurst ==
    /\ store = <<>>
    /\ env = "nofail"
    /\ dirComplete = TRUE
    /\ caller = [c \in Producers |-> IdleCaller]
    /\ failures = 0
    /\ syncQueue = <<>>
    /\ syncAllQueue = <<>>
    /\ resultCh = [c \in Producers |-> <<>>]
    /\ errCh = [c \in Producers |-> <<>>]
    /\ syncWorker = IdleWorker
    /\ syncAllWorker = IdleWorker
    /\ one = [c \in Producers |-> IdleOne]
    /\ run = [c \in Producers |-> IdleRun]
    /\ chunk = [c \in Producers |-> <<>>]
    /\ sent = [c \in Producers |-> [result |-> 0, err |-> 0]]
    /\ accepted = [sync |-> <<>>, all |-> <<>>]
    /\ started = [sync |-> <<>>, all |-> <<>>]

\* The sends of the producers and the two workers; the producers' receives
\* of their replies are left out, as they touch no queue.
NextBurst ==
    \/ \E c \in Producers : SameKind("SyncAirportQueued") /\ SyncAirportQueued(c, BurstFaa)
    \/ \E c \in Producers : SameKind("SyncAllAirportsQueued") /\ SyncAllAirportsQueued(c)
    \/ SyncWorkerReceive
    \/ SyncWorkerReply
    \/ SyncAllWorkerReceive
    \/ SyncAllWorkerReply
    \/ \E c \in Producers : SyncAirportByFAACall(c)
    \/ \E c \in Producers : GetAllAirports(c)

SpecBurst == InitBurst /\ [][NextBurst]_vars

(* ----------------------------- properties ----------------------------- *)

\* The jobs of the bulk queue whose SyncAllAirports is in progress.
BulkJobsRunning ==
    {c \in Callers : caller[c].op = "SyncAllAirportsQueued" /\ RunActive(run[c])}

\* The single-record syncs in progress on behalf of the queues: those of the
\* sync worker, and those of the fallback of a chunk of a queued bulk sync.
WorkerSyncs ==
    {c \in Callers : caller[c].op = "SyncAirportQueued" /\ OneActive(one[c])}

FallbackSyncs ==
    {<<c, k>> \in Callers \X (1..NumChunks(Len(store))) :
        /\ caller[c].op = "SyncAllAirportsQueued"
        /\ k \in DOMAIN chunk[c]
        /\ OneActive(chunk[c][k].one)}

Replies(c) == sent[c].result + sent[c].err

\* Job c of queue q was received by its worker, ran to completion and was
\* replied to.
Served(c) ==
    /\ ~OneActive(one[c])
    /\ ~RunActive(run[c])
    /\ chunk[c] = <<>>
    /\ Replies(c) = 1

\* C1: at most one bulk sync started by the bulk worker is in progress, and
\* when the worker has started a job, every job it started before has
\* completed (its chunk tasks included) and has been sent its reply.
C1_OneBulkSyncAtATime ==
    /\ Cardinality(BulkJobsRunning) <= 1
    /\ \A i \in 1..(Len(started.all) - 1) : Served(started.all[i])

\* C1 witness: the worker runs the job of a second caller.
C1_SecondBulkJobRuns ==
    /\ Len(started.all) = 2
    /\ RunActive(run[started.all[2]])
    /\ run[started.all[2]].pc = "collect"

\* C2 (as claimed): at most one execution of SyncAirportByFAA is in progress
\* among the sync worker and the chunk tasks of queued bulk syncs.
C2_OneSingleSyncAtATime ==
    Cardinality(WorkerSyncs) + Cardinality(FallbackSyncs) <= 1

\* The syncs of each kind running for HTTP requests.
RequestBulkSyncs ==
    {c \in Callers : caller[c].op = "syncAllAirports" /\ RunActive(run[c])}

RequestSingleSyncs ==
    {c \in Callers : caller[c].op = "syncAirportByFAA" /\ OneActive(one[c])}

\* C3 (as claimed): the requests served by the handler never have two syncs
\* of the same kind running at once.
C3_RequestsSerialized ==
    /\ Cardinality(RequestBulkSyncs) <= 1
    /\ Cardinality(RequestSingleSyncs) <= 1

\* The worker of job c has finished with it.
WorkerDone(c, q, w) ==
    /\ \E i \in DOMAIN q : q[i] = c
    /\ ~(w.pc = "running" /\ w.job = c)

\* C4: a job is sent at most one value over its two reply channels, and
\* exactly one once its worker has finished with it; no channel ever holds
\* more than the one value.
C4_ExactlyOneReply ==
    \A c \in Callers :
        /\ Replies(c) <= 1
        /\ Len(resultCh[c]) + Len(errCh[c]) <= Replies(c)
        /\ (WorkerDone(c, started.sync, syncWorker) \/ WorkerDone(c, started.all, syncAllWorker))
               => Replies(c) = 1
        /\ caller[c].pc = "done" => Replies(c) = 1

\* C4 witness: one job was replied to on errCh, another on resultCh, and
\* both callers have returned.
C4_BothKindsOfReply ==
    \E c, d \in Callers :
        /\ sent[c] = [result |-> 1, err |-> 0]
        /\ sent[d] = [result |-> 0, err |-> 1]
        /\ caller[c].pc = "done"
        /\ caller[d].pc = "done"

\* C5: every caller waiting for the reply of its job eventually returns.
C5_EveryCallerReturns ==
    \A c \in Callers : (caller[c].pc = "wait") ~> (caller[c].pc = "done")

\* C5 witness: a caller has returned from each of the two queued calls, the
\* bulk one with a count of one updated record.
C5_CallersReturned ==
    \E c, d \in Callers :
        /\ caller[c].pc = "done" /\ caller[c].op = "SyncAirportQueued"
        /\ caller[d].pc = "done" /\ caller[d].op = "SyncAllAirportsQueued"
        /\ caller[d].ret.updated = 1

IsPrefix(s, t) == Len(s) <= Len(t) /\ \A i \in DOMAIN s : s[i] = t[i]

\* C6: each worker starts the jobs in the order its queue accepted them, and
\* starts a job only when every job started before it on the same queue has
\* completed and has been sent its reply.
C6_QueueOrder ==
    /\ IsPrefix(started.sync, accepted.sync)
    /\ IsPrefix(started.all, accepted.all)
    /\ \A i \in 1..(Len(started.sync) - 1) : Served(started.sync[i])
    /\ \A i \in 1..(Len(started.all) - 1) : Served(started.all[i])

\* C6 witness: two jobs were accepted by the same queue before the first was
\* started, and the second is now running.
C6_SecondJobAfterFirst ==
    /\ Len(started.sync) = 2
    /\ OneActive(one[started.sync[2]])
    /\ syncQueue = <<>>

\* C7: neither worker waits for the other: while a sync of one kind is in
\* progress, the worker of the other kind can receive a pending job, and a
\* sync of the other kind in progress can take its next step.
C7_QueuesIndependent ==
    /\ (BulkJobsRunning # {} /\ syncQueue # <<>> /\ syncWorker.pc = "idle")
           => ENABLED SyncWorkerReceive
    /\ (WorkerSyncs # {} /\ syncAllQueue # <<>> /\ syncAllWorker.pc = "idle")
           => ENABLED SyncAllWorkerReceive
    /\ \A c \in WorkerSyncs : BulkJobsRunning # {} => ENABLED SyncAirportByFAACall(c)

\* C7 witness: a bulk sync and a single-record sync are both in progress,
\* each started while the other was running or pending.
C7_BothKindsActive ==
    /\ BulkJobsRunning # {}
    /\ WorkerSyncs # {}
    /\ \E c \in BulkJobsRunning : run[c].pc = "collect"
    /\ \E c \in WorkerSyncs : one[c].pc = "update"

RECURSIVE Sum(_)
Sum(s) == IF s = <<>> THEN 0 ELSE Head(s) + Sum(Tail(s))

\* What the chunk tasks of the run of caller c counted, over all its chunks.
ChunksUpdated(c) == Sum([k \in DOMAIN chunk[c] |-> chunk[c][k].updated])

ChunksErrors(c) == Sum([k \in DOMAIN chunk[c] |-> chunk[c][k].errors])

ChunksWrites(c) == Sum([k \in DOMAIN chunk[c] |-> chunk[c][k].writes])

ChunksOmitted(c) == Sum([k \in DOMAIN chunk[c] |-> chunk[c][k].omitted])

\* The run of caller c has read a non-empty record set and has returned.
RunReturned(c) ==
    /\ run[c].pc = "done"
    /\ run[c].airports # <<>>
    /\ Len(chunk[c]) = run[c].numChunks

\* C8: a run in which at least one record was updated and at least one
\* failed returns the number of records updated, which is the number of
\* records it wrote to the store, and no error.
C8_PartialSuccess ==
    \A c \in Callers :
        (RunReturned(c) /\ ChunksErrors(c) > 0 /\ ChunksUpdated(c) > 0)
            => /\ run[c].ret = [updated |-> ChunksUpdated(c), err |-> "nil"]
               /\ run[c].ret.updated = ChunksWrites(c)

\* C8 witness: a run over two chunks returned a count below the number of
\* stored records after records of the first chunk failed and the second
\* chunk updated all of its records.
C8_OneChunkFailed ==
    \E c \in Callers :
        /\ RunReturned(c)
        /\ Len(chunk[c]) = 2
        /\ chunk[c][1].errors > 0
        /\ chunk[c][2].errors = 0 /\ chunk[c][2].updated > 0
        /\ run[c].ret.updated = ChunksUpdated(c)
        /\ run[c].ret.updated < Len(store)

\* No remote call and no store call made for the records of the run of c
\* returned without error.
EveryCallFailed(c) == \A k \in DOMAIN chunk[c] : ~chunk[c][k].okCalls

\* C9: a run over a non-empty record set in which every remote call and
\* every store update fails returns zero and the aggregate error; when the
\* read of the record set fails as well, it still returns zero and an error.
C9_TotalFailure ==
    \A c \in Callers :
        /\ (RunReturned(c) /\ EveryCallFailed(c))
              => run[c].ret = [updated |-> 0, err |-> "failed to sync all airports"]
        /\ (run[c].pc = "done" /\ env = "allfail" /\ Len(store) > 0)
              => run[c].ret.updated = 0 /\ run[c].ret.err # "nil"

\* C9 witness: every call failed in a run over two chunks, one of which went
\* through both batch attempts and the fallback.
C9_EveryCallOfTwoChunksFailed ==
    \E c \in Callers :
        /\ RunReturned(c)
        /\ EveryCallFailed(c)
        /\ env = "allfail"
        /\ Len(chunk[c]) = 2
        /\ \E k \in DOMAIN chunk[c] : chunk[c][k].batchCalls = maxAttempts
        /\ run[c].totalErrors >= Len(store)

\* No remote call and no store call has failed.
NoCallFailed == Budgeted /\ failures = 0

\* C10 (as claimed): a run over a non-empty record set in which no call
\* fails returns the number of stored records and no error.
C10_AllUpdatedWhenNoCallFails ==
    \A c \in Callers :
        (RunReturned(c) /\ NoCallFailed)
            => run[c].ret = [updated |-> Len(store), err |-> "nil"]

\* C10 (amended): a run over a non-empty record set in which no call fails
\* and every batch lookup returns a record for each identifier it was asked
\* for returns the number of stored records and no error.
C10_AllUpdatedWhenNothingOmitted ==
    \A c \in Callers :
        (RunReturned(c) /\ NoCallFailed /\ ChunksOmitted(c) = 0)
            => run[c].ret = [updated |-> Len(store), err |-> "nil"]

\* C10 witness: a run over two chunks, with incomplete records fetched by
\* batch lookups and complete ones, returned with no failed call.
C10_TwoChunksAllUpdated ==
    \E c \in Callers :
        /\ RunReturned(c)
        /\ NoCallFailed
        /\ Len(chunk[c]) = 2
        /\ ChunksOmitted(c) = 0
        /\ \A k \in DOMAIN chunk[c] : chunk[c][k].batchCalls = 1
        /\ Len(store) > chunkSize + 1
        /\ run[c].ret.updated = Len(store)

\* C11: on an empty record set no chunk task is ever launched, so that no
\* remote call and no store write is made, and the run returns zero with the
\* error "no airports to sync" (or, when the read itself failed, with the
\* error of the read).
C11_EmptySetNoWork ==
    \A c \in Callers :
        Len(store) = 0
            => /\ chunk[c] = <<>>
               /\ run[c].pc \in {"none", "getall", "done"}
               /\ run[c].resultCh = <<>>
               /\ run[c].pc = "done"
                     => /\ run[c].ret.updated = 0
                        /\ run[c].ret.err \in {"no airports to sync", "failed to get airports"}
                        /\ (Budgeted /\ failures = 0)
                              => run[c].ret.err = "no airports to sync"

\* C11 witness: a run has read an empty record set and returned.
C11_EmptySetReturned ==
    \E c \in Callers :
        /\ Len(store) = 0
        /\ run[c].pc = "done"
        /\ NoCallFailed
        /\ run[c].ret = [updated |-> 0, err |-> "no airports to sync"]

\* The identifier is absent from the store.
Absent(faa) == GetAirportByFAA(store, faa) = NilAirport

\* C12: a single-record sync of an identifier absent from the store makes
\* the store lookup and no other call, leaves the store as it is, and returns
\* a nil record with the error "no airport found" (or, when the lookup
\* itself failed, with the error of the lookup).
C12_AbsentNotFound ==
    \A c \in Callers :
        (one[c].pc # "none" /\ Absent(one[c].faa))
            => /\ one[c].pc \in {"get", "done"}
               /\ one[c].pc = "get" => one[c].calls = <<>>
               /\ one[c].pc = "done"
                     => /\ one[c].calls = <<"get">>
                        /\ one[c].ret.airport = NilAirport
                        /\ one[c].ret.err \in {"no airport found", "failed to get airport"}

\* C12 witness: the sync of an identifier absent from the store returned
\* "no airport found".
C12_AbsentReturned ==
    \E c \in Callers :
        /\ one[c].pc = "done"
        /\ Absent(one[c].faa)
        /\ one[c].faa \in FaaInputs
        /\ one[c].ret = [airport |-> NilAirport, err |-> "no airport found"]

\* The store holds one complete and one incomplete record.
OneCompleteOneIncomplete ==
    /\ Len(store) = 2
    /\ Cardinality({i \in DOMAIN run[1].airports : needsAirportFetch(run[1].airports[i])}) = 1

\* In the run of caller c over one chunk, every weather lookup and every
\* store call succeeded and the batch lookup returned, on its first or its
\* second attempt, a record for every identifier: the only calls that failed
\* are batch attempts.
OnlyBatchAttemptsFailed(c) ==
    /\ Len(chunk[c]) = 1
    /\ ~chunk[c][1].fellBack
    /\ chunk[c][1].omitted = 0
    /\ failures = chunk[c][1].attempt

\* C13: with one complete record A and one incomplete record B, weather
\* lookups that succeed and a batch lookup that returns B, the run returns
\* 2 and no error and has written each of A and B exactly once.
C13_BothWrittenOnce ==
    (RunReturned(1) /\ OneCompleteOneIncomplete /\ OnlyBatchAttemptsFailed(1))
        => /\ run[1].ret = [updated |-> 2, err |-> "nil"]
           /\ Len(chunk[1][1].written) = 2
           /\ \A faa \in {1, 2} :
                 Cardinality({j \in DOMAIN chunk[1][1].written :
                                  chunk[1][1].written[j] = faa}) = 1

\* C13 witness: the scenario ran to its return, with one batch call, two
\* weather lookups and two writes, the fetched record B first.
C13_ScenarioReturned ==
    /\ RunReturned(1)
    /\ OneCompleteOneIncomplete
    /\ OnlyBatchAttemptsFailed(1)
    /\ needsAirportFetch(run[1].airports[2])
    /\ chunk[1][1].batchCalls = 1
    /\ chunk[1][1].weatherCalls = 2
    /\ chunk[1][1].written = <<2, 1>>

\* The least m with m * chunkSize >= n.
CeilOfChunks(n) == CHOOSE m \in 0..n : m * chunkSize >= n /\ (m = 0 \/ (m - 1) * chunkSize < n)

RECURSIVE Flatten(_)
Flatten(ss) == IF ss = <<>> THEN <<>> ELSE Head(ss) \o Flatten(Tail(ss))

\* The chunks handed to the tasks launched so far by the run of c, in order.
LaunchedChunks(c) == [k \in DOMAIN chunk[c] |-> chunk[c][k].chunk]

\* C14: the chunks launched so far are, in order, the records read up to the
\* launch offset; once the launch loop is over there are ceil(n/20) tasks,
\* their chunks put end to end are the records read (contiguous, disjoint,
\* each record once), and every chunk but the last holds 20 records, the
\* last between 1 and 20.
C14_ChunksPartition ==
    \A c \in Callers :
        /\ run[c].pc = "launch"
              => Flatten(LaunchedChunks(c)) = SubSeq(run[c].airports, 1, run[c].i)
        /\ run[c].pc = "collect"
              => /\ Len(chunk[c]) = CeilOfChunks(Len(run[c].airports))
                 /\ Len(chunk[c]) = run[c].numChunks
                 /\ Flatten(LaunchedChunks(c)) = run[c].airports
                 /\ \A k \in DOMAIN chunk[c] :
                       IF k < Len(chunk[c])
                       THEN Len(chunk[c][k].chunk) = chunkSize
                       ELSE Len(chunk[c][k].chunk) \in 1..chunkSize

\* C14 witness: 25 records were launched as 2 tasks, the first with records
\* 1..20 and the second with records 21..25.
C14_TwentyFiveRecords ==
    \E c \in Callers :
        /\ run[c].pc = "collect"
        /\ Len(run[c].airports) = 25
        /\ Len(chunk[c]) = 2
        /\ Len(chunk[c][1].chunk) = 20
        /\ chunk[c][1].chunk[20].faa = 20
        /\ Len(chunk[c][2].chunk) = 5
        /\ chunk[c][2].chunk[1].faa = 21

\* The chunk tasks of the run of c that have emitted their result.
Emitted(c) == {k \in DOMAIN chunk[c] : chunk[c][k].pc = "done"}

\* What the emitted tasks of the run of c counted.
EmittedUpdated(c) ==
    Sum([k \in DOMAIN chunk[c] |-> IF k \in Emitted(c) THEN chunk[c][k].updated ELSE 0])

EmittedErrors(c) ==
    Sum([k \in DOMAIN chunk[c] |-> IF k \in Emitted(c) THEN chunk[c][k].errors ELSE 0])

\* The results waiting on the result channel of the run of c.
PendingUpdated(c) == Sum([j \in DOMAIN run[c].resultCh |-> run[c].resultCh[j].updated])

PendingErrors(c) == Sum([j \in DOMAIN run[c].resultCh |-> run[c].resultCh[j].errors])

\* C15: whatever fails, a launched chunk task can always take its next step
\* until it has emitted its result; each task emits one result, which is
\* either waiting on the result channel or added to the totals; and the run
\* returns only when every task has emitted and the totals hold the counts
\* of every chunk.
C15_NoChunkAborts ==
    \A c \in Callers :
        /\ \A k \in DOMAIN chunk[c] :
              chunk[c][k].pc # "done" => ENABLED (ProcessChunk(c, k) \/ SendResult(c, k))
        /\ run[c].pc = "launch" => Len(run[c].resultCh) = Cardinality(Emitted(c))
        /\ run[c].pc = "collect"
              => /\ Len(run[c].resultCh) + run[c].i = Cardinality(Emitted(c))
                 /\ run[c].totalUpdated + PendingUpdated(c) = EmittedUpdated(c)
                 /\ run[c].totalErrors + PendingErrors(c) = EmittedErrors(c)
        /\ RunReturned(c)
              => /\ Emitted(c) = DOMAIN chunk[c]
                 /\ run[c].resultCh = <<>>
                 /\ run[c].i = run[c].numChunks
                 /\ run[c].totalUpdated = ChunksUpdated(c)
                 /\ run[c].totalErrors = ChunksErrors(c)

\* C15 witness: a run over two chunks returned after the batch lookup of
\* the first chunk failed twice and a record of it failed, with the second
\* chunk's records all updated and counted in the totals.
C15_FailedChunkCounted ==
    \E c \in Callers :
        /\ RunReturned(c)
        /\ Len(chunk[c]) = 2
        /\ chunk[c][1].fellBack
        /\ chunk[c][1].errors > 0
        /\ chunk[c][2].errors = 0
        /\ chunk[c][2].updated > 0
        /\ run[c].totalUpdated = chunk[c][1].updated + chunk[c][2].updated
        /\ run[c].totalErrors = chunk[c][1].errors

\* The chunk tasks of every run.
Tasks == {<<c, k>> \in Callers \X (1..NumChunks(Len(store))) : k \in DOMAIN chunk[c]}

\* C16 (as claimed): a chunk whose batch lookup has failed on its first two
\* calls does not reach the fallback.
C16_NoFallbackAfterTwoFailures ==
    \A ck \in Tasks :
        chunk[ck[1]][ck[2]].attempt = maxAttempts => ~chunk[ck[1]][ck[2]].fellBack

\* C16 (amended): a chunk whose batch lookup has failed at most once (it
\* failed on the first call and succeeded on the second, or did not fail)
\* never reaches the fallback and starts no single-record sync; the fallback
\* is reached exactly when the first two calls have failed, and there is no
\* third call.
C16_FallbackAfterTwoFailures ==
    \A ck \in Tasks :
        LET t == chunk[ck[1]][ck[2]] IN
        /\ t.attempt <= 1
              => ~t.fellBack /\ t.pc # "fallback" /\ t.tried = <<>> /\ t.one = IdleOne
        /\ t.attempt = maxAttempts <=> t.fellBack
        /\ t.fellBack => t.batchCalls = maxAttempts
        /\ t.attempt <= maxAttempts

\* C16 witness: a chunk finished without the fallback after its first batch
\* call failed and its second succeeded, and a record of it was updated.
C16_RetrySucceeded ==
    \E ck \in Tasks :
        LET t == chunk[ck[1]][ck[2]] IN
        /\ t.pc = "done"
        /\ t.attempt = 1
        /\ t.batchCalls = 2
        /\ ~t.batchErr
        /\ ~t.fellBack
        /\ t.updated > 0

\* C17: a chunk makes at most two batch calls, and none when its incomplete
\* subset is empty; every call but a successful last one has failed, so the
\* second call follows a failed first one; there is one backoff wait, after
\* the first failure, and none after the second; the fallback is entered if
\* and only if both calls failed, and then the batch phase is over.
C17_AtMostTwoBatchCalls ==
    \A ck \in Tasks :
        LET t == chunk[ck[1]][ck[2]] IN
        /\ t.batchCalls <= maxAttempts
        /\ t.batchCalls \in {t.attempt, t.attempt + 1}
        /\ t.batchCalls = 2 => t.attempt >= 1
        /\ t.backoffs = (IF t.attempt >= 1 THEN 1 ELSE 0)
        /\ t.fellBack <=> (t.batchCalls = 2 /\ t.attempt = 2)
        /\ t.fellBack => t.pc # "batch"
        /\ t.pc = "fallback" => t.fellBack
        /\ (t.pc # "done" /\ t.incompleteFAA = <<>>) => t.batchCalls = 0
        /\ (t.pc \notin {"batch", "done"} /\ t.incompleteFAA # <<>>) => t.batchCalls >= 1

\* C17 witness: a chunk is in its fallback after two failed batch calls and
\* one backoff wait.
C17_FallbackAfterBackoff ==
    \E ck \in Tasks :
        LET t == chunk[ck[1]][ck[2]] IN
        /\ t.pc = "fallback"
        /\ t.batchCalls = 2
        /\ t.attempt = 2
        /\ t.backoffs = 1
        /\ OneActive(t.one)

\* C18: in the fallback the identifiers tried so far are the incomplete
\* subset up to the current one, in subset order, each tried once, and the
\* attempts counted as recovered or failed are those that have returned;
\* after the fallback every identifier of the subset has been tried once
\* and recovered plus failed is the size of the subset.  A chunk that does
\* not take the fallback tries none.
C18_FallbackTriesEveryIdentifier ==
    \A ck \in Tasks :
        LET t == chunk[ck[1]][ck[2]] IN
        /\ t.pc = "fallback"
              => /\ t.tried = SubSeq(t.incompleteFAA, 1, t.i)
                 /\ t.one.faa = t.incompleteFAA[t.i]
                 /\ t.recovered + t.failed = t.i - 1
        /\ (t.fellBack /\ t.pc \in {"weather", "update", "send"})
              => /\ t.tried = t.incompleteFAA
                 /\ t.recovered + t.failed = Len(t.incompleteFAA)
        /\ (t.fellBack /\ t.pc = "done") => t.recovered + t.failed = Len(t.tried)
        /\ ~t.fellBack => t.tried = <<>> /\ t.recovered = 0 /\ t.failed = 0

\* C18 witness: a fallback over two identifiers has tried both in order;
\* the first attempt failed, leaving its record incomplete in the store, and
\* the second recovered its record.
C18_TwoTriedOneFailed ==
    \E ck \in Tasks :
        LET t == chunk[ck[1]][ck[2]] IN
        /\ t.fellBack
        /\ t.pc = "send"
        /\ t.incompleteFAA = <<1, 2>>
        /\ t.tried = <<1, 2>>
        /\ t.failed = 1
        /\ t.recovered = 1
        /\ needsAirportFetch(store[1])
        /\ ~needsAirportFetch(store[2])

\* What the weather loop of task t has counted: its updates and errors
\* less those of the fallback.
LoopCounted(t) == (t.updated - t.recovered) + (t.errors - t.failed)

\* C19: the weather loop makes one weather lookup for the record it is at
\* and has counted each record before it once, as an update or as an error;
\* at its end every record of the merged set has had one weather lookup and
\* has been counted once, whatever failed.  Before the loop nothing is
\* looked up or counted.
C19_WeatherLoopContinues ==
    \A ck \in Tasks :
        LET t == chunk[ck[1]][ck[2]] IN
        /\ t.pc \in {"batch", "fallback"} => t.weatherCalls = 0 /\ LoopCounted(t) = 0
        /\ t.pc = "weather"
              => /\ t.i \in 1..Len(t.allAirports)
                 /\ t.weatherCalls = t.i - 1
                 /\ LoopCounted(t) = t.i - 1
        /\ t.pc = "update"
              => /\ t.i \in 1..Len(t.allAirports)
                 /\ t.weatherCalls = t.i
                 /\ LoopCounted(t) = t.i - 1
        /\ t.pc = "send"
              => /\ t.weatherCalls = Len(t.allAirports)
                 /\ LoopCounted(t) = Len(t.allAirports)
        /\ t.pc = "done" => t.weatherCalls = LoopCounted(t)
        /\ t.errors - t.failed >= 0
        /\ t.updated - t.recovered >= 0

\* C19 witness: the weather loop of a full chunk ended after two of its
\* records failed, with a weather lookup for each of the 20 records and
\* the 18 others updated.
C19_LoopEndedAfterFailures ==
    \E ck \in Tasks :
        LET t == chunk[ck[1]][ck[2]] IN
        /\ t.pc = "send"
        /\ Len(t.allAirports) = chunkSize
        /\ t.weatherCalls = chunkSize
        /\ t.errors = 2
        /\ t.updated = chunkSize - 2
        /\ failures = 2

\* The errors of the calls made for single records.
RecordErrors ==
    {"failed to get airport", "no airport found", "failed to fetch airport",
     "failed to fetch weather", "failed to update airport"}

\* C20: a run returns no error, or the error of the store read (before any
\* chunk), or the empty-set error (on an empty store), or the aggregate
\* error (when records failed and none was updated), never the error of a
\* call made for a record; whenever it returns an error its count is 0;
\* and the handler's caller gets the same.
C20_OnlyBulkErrors ==
    \A c \in Callers :
        /\ run[c].pc = "done"
              => /\ run[c].ret.err \notin RecordErrors
                 /\ run[c].ret.err \in {"nil", "failed to get airports",
                                        "no airports to sync", "failed to sync all airports"}
                 /\ run[c].ret.err # "nil" => run[c].ret.updated = 0
                 /\ run[c].ret.err = "failed to get airports" => chunk[c] = <<>>
                 /\ run[c].ret.err = "no airports to sync" => Len(store) = 0
                 /\ run[c].ret.err = "failed to sync all airports"
                       => ChunksErrors(c) > 0 /\ ChunksUpdated(c) = 0
        /\ (caller[c].pc = "done" /\ caller[c].op = "syncAllAirports")
              => /\ caller[c].ret.err \in {"nil", "failed to get airports",
                                           "no airports to sync", "failed to sync all airports"}
                 /\ caller[c].ret.err # "nil" => caller[c].ret.updated = 0

\* C20 witness: a run returned a count and no error although single-record
\* syncs of its fallback returned errors.
C20_RecordErrorsSwallowed ==
    \E c \in Callers :
        /\ RunReturned(c)
        /\ \E k \in DOMAIN chunk[c] : chunk[c][k].failed > 0
        /\ run[c].ret.err = "nil"
        /\ run[c].ret.updated > 0

(* SyncAllAirports: the failed read *)

\* C21: when GetAllAirports fails, SyncAllAirports returns 0 and the error
\* "failed to get airports"; it has launched no chunk task, so that none of
\* its remote calls and store updates is made, and nothing is in its result
\* channel.
C21_ReadFailureStopsRun ==
    \A c \in Callers :
        run[c].read = "failed" =>
            /\ run[c].pc = "done"
            /\ run[c].ret = [updated |-> 0, err |-> "failed to get airports"]
            /\ run[c].airports = <<>>
            /\ run[c].numChunks = 0
            /\ run[c].resultCh = <<>>
            /\ chunk[c] = <<>>
            /\ \A k \in 1..NumChunks(Len(store)) :
                   ~ENABLED ProcessChunk(c, k) /\ ~ENABLED SendResult(c, k)
            /\ ~ENABLED LaunchChunk(c)
            /\ Budgeted => failures = 1

\* The read of a store of two chunks failed, and the run returned.
C21_ReadOfTwoChunksFailed ==
    /\ Len(store) > chunkSize
    /\ run[1].read = "failed"
    /\ run[1].pc = "done"
    /\ run[1].ret.err = "failed to get airports"

(* SyncAirportByFAA: its calls and its errors *)

\* The runs of SyncAirportByFAA: those of the callers' jobs and requests, and
\* those of the fallback loops of the chunk tasks.
Frames ==
    {one[c] : c \in Callers}
        \cup UNION {{chunk[c][k].one : k \in DOMAIN chunk[c]} : c \in Callers}

\* The error SyncAirportByFAA returns when the named call fails.
ErrorOf(call) ==
    CASE call = "get" -> "failed to get airport"
      [] call = "fetch" -> "failed to fetch airport"
      [] call = "weather" -> "failed to fetch weather"
      [] call = "update" -> "failed to update airport"

\* C22: SyncAirportByFAA returns the first error it meets with a nil record
\* and makes no later call: a failed call is the last call of the run, the
\* run has returned that call's error, a failed store read is the only call,
\* a failed directory lookup is not followed by a weather lookup, a failed
\* weather lookup is not followed by a store update, and a run that returned
\* an error has not written to the store.
C22_FirstErrorReturned ==
    \A f \in Frames :
        /\ Len(f.oks) = Len(f.calls)
        /\ \A i \in DOMAIN f.calls :
               ~f.oks[i] =>
                   /\ i = Len(f.calls)
                   /\ f.pc = "done"
                   /\ f.ret = [airport |-> NilAirport, err |-> ErrorOf(f.calls[i])]
        /\ f.pc = "done" /\ f.ret.err # "nil" =>
               /\ f.ret.airport = NilAirport
               /\ f.writes = 0
        /\ f.pc = "done" /\ f.ret.err = "failed to get airport" => f.calls = <<"get">>
        /\ f.pc = "done" /\ f.ret.err = "failed to fetch airport" =>
               f.calls = <<"get", "fetch">>
        /\ f.pc = "done" /\ f.ret.err = "failed to fetch weather" =>
               f.calls \in {<<"get", "weather">>, <<"get", "fetch", "weather">>}
        /\ f.writes > 0 => f.pc = "done" /\ f.ret.err = "nil" /\ f.writes = 1

\* A queued single-record sync whose weather lookup failed after its store
\* read and its directory lookup, and which returned.
C22_WeatherFailedAfterFetch ==
    \E c \in Callers :
        /\ caller[c].op = "SyncAirportQueued"
        /\ one[c].pc = "done"
        /\ one[c].calls = <<"get", "fetch", "weather">>
        /\ one[c].oks = <<TRUE, TRUE, FALSE>>
        /\ one[c].ret.err = "failed to fetch weather"

\* The directory lookup of run f returned no entry for its identifier: the
\* helper's zero Airport took the place of the stored record.
NotFoundUpstream(f) ==
    /\ f.stored # NilAirport
    /\ needsAirportFetch(f.stored)
    /\ Len(f.calls) >= 2
    /\ f.calls[2] = "fetch"
    /\ f.oks[2]
    /\ f.airport = ZeroAirport

\* C23: a run of SyncAirportByFAA for an incomplete stored record whose
\* identifier the directory does not list returns an error and has not
\* written to the store.
C23_NotFoundUpstreamIsError ==
    \A f \in Frames :
        f.pc = "done" /\ NotFoundUpstream(f) =>
            /\ f.ret.err # "nil"
            /\ f.ret.airport = NilAirport
            /\ f.writes = 0

\* The last call of run f was the store update, and it returned an error or
\* matched no row of the table.
UpdateFailed(f) ==
    /\ f.calls # <<>>
    /\ f.calls[Len(f.calls)] = "update"
    /\ \/ ~f.oks[Len(f.oks)]
       \/ \A i \in DOMAIN store : store[i].faa # f.airport.faa

\* C24: when the store update of SyncAirportByFAA fails or affects no row,
\* the run returns the error "failed to update airport" and a nil record,
\* not the updated record; it returns that error in no other case.
C24_UpdateFailureReturnsNil ==
    \A f \in Frames :
        /\ f.pc = "done" /\ UpdateFailed(f) =>
               /\ f.ret = [airport |-> NilAirport, err |-> "failed to update airport"]
               /\ f.writes = 0
        /\ f.pc = "done" /\ f.ret.err = "failed to update airport" => UpdateFailed(f)

\* A queued single-record sync whose directory lookup returned the zero
\* Airport: its update matched no row, and it returned the update error.
C24_UpdateMatchedNoRow ==
    \E c \in Callers :
        /\ caller[c].op = "SyncAirportQueued"
        /\ one[c].pc = "done"
        /\ one[c].airport = ZeroAirport
        /\ one[c].calls = <<"get", "fetch", "weather", "update">>
        /\ one[c].ret = [airport |-> NilAirport, err |-> "failed to update airport"]
        /\ store # <<>>

\* How many times run f made the named call.
CallsOf(f, call) == Cardinality({i \in DOMAIN f.calls : f.calls[i] = call})

\* Run f got past its store read and, for an incomplete record, past its
\* directory lookup.
PastLookups(f) ==
    /\ f.stored # NilAirport
    /\ ~f.stored.complete => Len(f.calls) >= 2 /\ f.calls[2] = "fetch" /\ f.oks[2]

\* C25: SyncAirportByFAA makes the directory lookup if and only if the record
\* it read from the store is incomplete, and makes the weather lookup exactly
\* once in every run that gets past the store read and the directory lookup
\* (also for a complete record), and in no other run.
C25_LookupsOfOneRun ==
    \A f \in Frames :
        /\ \A call \in {"get", "fetch", "weather", "update"} : CallsOf(f, call) <= 1
        /\ CallsOf(f, "fetch") = 1 => f.stored # NilAirport /\ ~f.stored.complete
        /\ f.pc = "fetch" => f.stored # NilAirport /\ ~f.stored.complete
        /\ f.stored # NilAirport /\ f.pc \in {"weather", "update", "done"} =>
               (CallsOf(f, "fetch") = 1 <=> ~f.stored.complete)
        /\ f.pc = "weather" => PastLookups(f) /\ CallsOf(f, "weather") = 0
        /\ f.pc \in {"update", "done"} /\ PastLookups(f) => CallsOf(f, "weather") = 1
        /\ CallsOf(f, "weather") = 1 => PastLookups(f)

\* A queued single-record sync of a complete stored record returned: it made
\* the weather lookup and the update, and no directory lookup.
C25_CompleteRecordSynced ==
    \E c \in Callers :
        /\ caller[c].op = "SyncAirportQueued"
        /\ one[c].pc = "done"
        /\ one[c].stored.complete
        /\ one[c].calls = <<"get", "weather", "update">>
        /\ one[c].ret.err = "nil"

(* processChunk: the order of its records *)

\* The identifiers of a sequence of records.
Faas(as) == [i \in DOMAIN as |-> as[i].faa]

\* The place of x in a sequence that holds it.
PlaceIn(q, x) == CHOOSE j \in DOMAIN q : q[j] = x

\* The members of h are members of q, in the order they have in q.
InOrderOf(h, q) ==
    /\ \A i \in DOMAIN h : \E j \in DOMAIN q : q[j] = h[i]
    /\ \A i, j \in DOMAIN h : i < j => PlaceIn(q, h[i]) < PlaceIn(q, h[j])

\* The order in which task t takes its records: the identifiers its fallback
\* loop tried, then the records its batch lookup returned, then its complete
\* records.
ProcessingOrder(t) ==
    t.tried \o Faas(t.fetchedAirports) \o Faas(t.completeAirports)

\* The tasks whose goroutine has not returned.
LiveTasks ==
    {chunk[p[1]][p[2]] : p \in {q \in Tasks : chunk[q[1]][q[2]].pc # "done"}}

\* C26 as claimed: within one chunk, the weather lookups and the store updates
\* are made in the order in which the records appear in the chunk's input,
\* for every mix of complete and incomplete records.
C26_ChunkInputOrder ==
    \A t \in LiveTasks :
        /\ InOrderOf(t.looked, Faas(t.chunk))
        /\ InOrderOf(t.written, Faas(t.chunk))

\* C26: within one chunk, the weather lookups and the store updates are made
\* in the order of the merged list: the records the batch lookup returned, in
\* the order it returned them, and then the complete records in chunk order
\* (the identifiers of a fallback are tried in chunk order, before both);
\* every record is written after its own weather lookup, and the loop looks
\* up every record of the merged list.
C26_MergedOrder ==
    \A t \in LiveTasks :
        /\ InOrderOf(t.looked, ProcessingOrder(t))
        /\ InOrderOf(t.written, t.looked)
        /\ InOrderOf(Faas(t.completeAirports), Faas(t.chunk))
        /\ InOrderOf(t.tried, Faas(t.chunk))
        /\ t.pc = "send" =>
               /\ Len(t.looked) >= Len(t.allAirports)
               /\ SubSeq(t.looked, Len(t.looked) - Len(t.allAirports) + 1, Len(t.looked))
                      = Faas(t.allAirports)

\* A chunk of a complete record followed by an incomplete one is at its
\* send: the fetched record was looked up and written before the complete
\* record that precedes it in the chunk.
C26_IncompleteProcessedFirst ==
    \E t \in LiveTasks :
        /\ t.pc = "send"
        /\ Faas(t.chunk) = <<1, 2>>
        /\ ~needsAirportFetch(t.chunk[1])
        /\ needsAirportFetch(t.chunk[2])
        /\ t.looked = <<2, 1>>
        /\ t.written = <<2, 1>>

(* processChunk: the batch lookup and the complete records *)

\* C27: a chunk task whose records are all complete makes no batch directory
\* lookup and takes no fallback; a batch lookup is made only with a list that
\* is not empty, and the list holds exactly the identifiers of the chunk's
\* incomplete records, in chunk order.
C27_BatchOnlyForIncomplete ==
    /\ \A p \in Tasks :
           LET t == chunk[p[1]][p[2]] IN
           /\ t.batchCalls > 0 <=> t.asked # <<>>
           /\ t.fellBack => t.asked # <<>>
           /\ t.tried # <<>> => t.fellBack
    /\ \A t \in LiveTasks :
           /\ t.batchCalls > 0 =>
                  /\ InOrderOf(t.asked, Faas(t.chunk))
                  /\ Range(t.asked) = {a.faa : a \in {b \in Range(t.chunk) : ~b.complete}}
                  /\ Len(t.asked) = Cardinality(Range(t.asked))
           /\ (\A i \in DOMAIN t.chunk : t.chunk[i].complete) =>
                  /\ t.pc \notin {"batch", "fallback"}
                  /\ t.batchCalls = 0
                  /\ ~t.fellBack
                  /\ t.one = IdleOne
                  /\ t.allAirports = t.chunk

\* Of the two chunks of a run, the first holds complete records only and is
\* at its send after twenty updates and no batch lookup; the task of the
\* second has made a batch lookup for its one incomplete record.
C27_CompleteChunkSkipsBatch ==
    /\ Len(chunk[1]) = 2
    /\ chunk[1][1].pc = "send"
    /\ Len(chunk[1][1].chunk) = chunkSize
    /\ \A i \in DOMAIN chunk[1][1].chunk : chunk[1][1].chunk[i].complete
    /\ chunk[1][1].batchCalls = 0
    /\ chunk[1][1].updated = chunkSize
    /\ chunk[1][2].asked = <<chunkSize + 1>>

(* SyncAllAirports: the totals and the order of the results *)

\* The result of SyncAllAirports for the counts u and e, by the policy of
\* its last lines.
Verdict(u, e) ==
    IF e > 0 /\ u = 0 THEN [updated |-> 0, err |-> "failed to sync all airports"]
    ELSE [updated |-> u, err |-> "nil"]

\* C28: the totals and the result of SyncAllAirports are those of the counts
\* of its chunk tasks added up, whatever the order in which the tasks sent
\* their results: both totals are the sums over the tasks, and the result is
\* the verdict on these sums.
C28_TotalsIgnoreOrder ==
    \A c \in Callers :
        RunReturned(c) =>
            /\ run[c].totalUpdated = ChunksUpdated(c)
            /\ run[c].totalErrors = ChunksErrors(c)
            /\ run[c].ret = Verdict(ChunksUpdated(c), ChunksErrors(c))
            /\ Len(run[c].collected) = run[c].numChunks
            /\ Range(run[c].collected) = 1..run[c].numChunks

\* A run of two chunks returned after it received the result of the second
\* task before that of the first, and the two results differ.
C28_SecondChunkFirst ==
    /\ RunReturned(1)
    /\ run[1].collected = <<2, 1>>
    /\ chunk[1][1].updated # chunk[1][2].updated
    /\ chunk[1][1].errors # chunk[1][2].errors
    /\ run[1].ret.updated = chunk[1][1].updated + chunk[1][2].updated

(* SyncAllAirports: the result channel *)

\* The run of c has launched its last chunk task.
Launched(c) == run[c].pc = "collect" \/ RunReturned(c)

\* C29: the result channel of SyncAllAirports has room for one result of
\* every chunk task, so that a task at its send never blocks; the run
\* launches as many tasks as the channel has room for, receives exactly that
\* many results, and when it returns every task has sent its result and
\* returned: none is running, none can write to the store.
C29_ReturnsAfterEveryChunk ==
    \A c \in Callers :
        /\ run[c].airports # <<>> =>
               /\ run[c].numChunks = CeilOfChunks(Len(run[c].airports))
               /\ Len(chunk[c]) <= run[c].numChunks
               /\ Len(run[c].resultCh) <= Len(chunk[c])
        /\ \A k \in DOMAIN chunk[c] :
               chunk[c][k].pc = "send" => ENABLED SendResult(c, k)
        /\ Launched(c) => Len(chunk[c]) = run[c].numChunks
        /\ run[c].pc = "collect" =>
               /\ run[c].i < run[c].numChunks
               /\ Len(run[c].collected) = run[c].i
        /\ RunReturned(c) =>
               /\ Len(run[c].collected) = run[c].numChunks
               /\ \A k \in DOMAIN chunk[c] :
                      /\ chunk[c][k].pc = "done"
                      /\ ~ENABLED ProcessChunk(c, k)
                      /\ ~ENABLED SendResult(c, k)
                      /\ Cardinality({j \in DOMAIN run[c].collected :
                                          run[c].collected[j] = k}) = 1

\* Both tasks of a run of two chunks have sent their results before the run
\* received one: the result channel is full, and no task is left at a send.
C29_ResultChannelFull ==
    /\ run[1].pc = "collect"
    /\ run[1].numChunks = 2
    /\ run[1].i = 0
    /\ Len(run[1].resultCh) = 2
    /\ \A k \in DOMAIN chunk[1] : chunk[1][k].pc = "done"

(* the job queues: capacity *)

\* The producers whose send on a queue went through.
Admitted(op) == {c \in DOMAIN caller : caller[c].pc = "wait" /\ caller[c].op = op}

\* The place of job c in the order of acceptance q is its only one.
AcceptedOnce(q, c) == Cardinality({i \in DOMAIN q : q[i] = c}) = 1

\* C30: each queue holds at most 100 pending jobs; while it holds 100, the
\* send of a producer cannot proceed (and it can while it holds fewer), so
\* that the producers admitted beyond the first 100 are admitted after the
\* worker dequeued as many jobs; and no job is dropped or rejected: every
\* producer whose send went through has one job in the order of acceptance,
\* and every accepted job is pending or was started by the worker, in order.
C30_QueuesBounded ==
    /\ Len(syncQueue) <= QueueCap
    /\ Len(syncAllQueue) <= QueueCap
    /\ \A c \in DOMAIN caller :
           /\ MayCall(c) /\ Len(syncQueue) = QueueCap
                  => ~ENABLED SyncAirportQueued(c, BurstFaa)
           /\ MayCall(c) /\ Len(syncQueue) < QueueCap
                  => ENABLED SyncAirportQueued(c, BurstFaa)
           /\ MayCall(c) /\ Len(syncAllQueue) = QueueCap
                  => ~ENABLED SyncAllAirportsQueued(c)
           /\ MayCall(c) /\ Len(syncAllQueue) < QueueCap
                  => ENABLED SyncAllAirportsQueued(c)
    /\ Len(accepted.sync) - Len(started.sync) <= QueueCap
    /\ Len(accepted.all) - Len(started.all) <= QueueCap
    /\ accepted.sync = started.sync \o syncQueue
    /\ accepted.all = started.all \o syncAllQueue
    /\ Range(accepted.sync) = Admitted("SyncAirportQueued")
    /\ Range(accepted.all) = Admitted("SyncAllAirportsQueued")
    /\ \A c \in Admitted("SyncAirportQueued") : AcceptedOnce(accepted.sync, c)
    /\ \A c \in Admitted("SyncAllAirportsQueued") : AcceptedOnce(accepted.all, c)

\* The bulk queue holds 100 pending jobs again after it admitted its 101st
\* job, and a producer is still waiting to send.
C30_FullAfterAdmission ==
    /\ Len(syncAllQueue) = QueueCap
    /\ Len(accepted.all) = QueueCap + 1
    /\ Len(started.all) = 1
    /\ \E c \in DOMAIN caller : MayCall(c)

(* the workers: one execution for every job *)

\* How many times job c occurs in the order q.
TimesIn(q, c) == Cardinality({i \in DOMAIN q : q[i] = c})

\* C31: every job accepted by a queue is executed exactly once: a worker
\* starts the sync of a job at most once, every accepted job is pending or
\* was started (none is skipped), the job a worker holds has its one run in
\* progress or finished, and every job started before it ran to completion
\* once: its run made its first call once and was replied to once.
C31_ExecutedOnce ==
    /\ accepted.sync = started.sync \o syncQueue
    /\ accepted.all = started.all \o syncAllQueue
    /\ \A c \in Callers :
           /\ TimesIn(accepted.sync, c) + TimesIn(accepted.all, c)
                  = (IF caller[c].pc \in {"wait", "done"} THEN 1 ELSE 0)
           /\ TimesIn(started.sync, c) <= 1
           /\ TimesIn(started.all, c) <= 1
           /\ one[c].pc # "none" =>
                  /\ syncWorker = [pc |-> "running", job |-> c]
                  /\ started.sync # <<>> /\ started.sync[Len(started.sync)] = c
                  /\ CallsOf(one[c], "get") <= 1
           /\ run[c].pc # "none" =>
                  /\ syncAllWorker = [pc |-> "running", job |-> c]
                  /\ started.all # <<>> /\ started.all[Len(started.all)] = c
           /\ (TimesIn(started.sync, c) = 1 /\ syncWorker.job # c) => Served(c)
           /\ (TimesIn(started.all, c) = 1 /\ syncAllWorker.job # c) => Served(c)
           /\ Replies(c) = 1 => TimesIn(started.sync, c) + TimesIn(started.all, c) = 1

\* The sync queue accepted two jobs; the worker started both in that order,
\* has replied to both and is idle, and the queue is empty.
C31_TwoJobsExecuted ==
    /\ accepted.sync = <<1, 2>>
    /\ started.sync = <<1, 2>>
    /\ syncQueue = <<>>
    /\ syncWorker = IdleWorker
    /\ Replies(1) = 1
    /\ Replies(2) = 1

(* the workers: after an error *)

\* The last job worker w started was replied to with an error.
LastFailed(q, w) ==
    /\ q # <<>>
    /\ w.pc # "running"
    /\ sent[q[Len(q)]].err = 1

\* C32: a job that ends in an error does not stop its worker: a worker whose
\* job has returned can send the reply at once, a worker that is not running
\* a job is at its receive and can receive a pending job, also when the job
\* it ran last was replied to with an error; and a job is never started
\* before the reply to the job before it, error or not, was sent.
C32_WorkerSurvivesError ==
    /\ syncWorker.pc \in {"idle", "running"}
    /\ syncAllWorker.pc \in {"idle", "running"}
    /\ (syncWorker.pc = "running" /\ one[syncWorker.job].pc = "done")
           => ENABLED SyncWorkerReply
    /\ (syncAllWorker.pc = "running" /\ run[syncAllWorker.job].pc = "done")
           => ENABLED SyncAllWorkerReply
    /\ (syncWorker.pc # "running" /\ syncQueue # <<>>) => ENABLED SyncWorkerReceive
    /\ (syncAllWorker.pc # "running" /\ syncAllQueue # <<>>)
           => ENABLED SyncAllWorkerReceive
    /\ (LastFailed(started.sync, syncWorker) /\ syncQueue # <<>>)
           => ENABLED SyncWorkerReceive
    /\ (LastFailed(started.all, syncAllWorker) /\ syncAllQueue # <<>>)
           => ENABLED SyncAllWorkerReceive

\* The first job of the sync queue was replied to with an error, and the
\* worker is running the second job, which is at its store update.
C32_NextJobAfterError ==
    /\ started.sync = <<1, 2>>
    /\ sent[1] = [result |-> 0, err |-> 1]
    /\ syncWorker = [pc |-> "running", job |-> 2]
    /\ one[2].pc = "update"

(* the queued calls and the runs behind them *)

\* The callers that have returned from a queued call.
Returned == {c \in Callers : caller[c].pc = "done"
                               /\ caller[c].op \in {"SyncAirportQueued",
                                                     "SyncAllAirportsQueued"}}

\* C33: a queued call returns what the run of its own job returned: the
\* error with a nil record or the count 0 when the run returned an error,
\* the record or the count with a nil error otherwise; and the value waiting
\* on a reply channel of a job is that of the job's own run.
C33_QueuedReturnsRunResult ==
    /\ \A c \in Returned :
           /\ caller[c].ret = caller[c].ran
           /\ caller[c].ret.err # "nil" =>
                  caller[c].ret.airport = NilAirport /\ caller[c].ret.updated = 0
           /\ caller[c].op = "SyncAirportQueued" /\ caller[c].ret.err = "nil" =>
                  caller[c].ret.airport # NilAirport
           /\ caller[c].op = "SyncAirportQueued" /\ caller[c].ret.err # "nil" =>
                  caller[c].ret.err \in {"no airport found"}
                      \cup {ErrorOf(call) : call \in {"get", "fetch", "weather", "update"}}
           /\ caller[c].op = "SyncAllAirportsQueued" /\ caller[c].ret.err # "nil" =>
                  caller[c].ret.err \in {"failed to get airports", "no airports to sync",
                                         "failed to sync all airports"}
    /\ \A c \in Callers :
           /\ errCh[c] # <<>> => caller[c].ran.err = Head(errCh[c]) /\ Head(errCh[c]) # "nil"
           /\ resultCh[c] # <<>> =>
                  /\ caller[c].ran.err = "nil"
                  /\ caller[c].op = "SyncAirportQueued"
                         => Head(resultCh[c]) = caller[c].ran.airport
                  /\ caller[c].op = "SyncAllAirportsQueued"
                         => Head(resultCh[c]) = caller[c].ran.updated
           /\ (one[c].pc = "done" /\ caller[c].op = "SyncAirportQueued") =>
                  one[c].faa = caller[c].faa

\* Two callers have returned from queued calls of the two kinds: one with
\* the error of its single-record run, the other with the count of its bulk
\* run.
C33_ErrorAndCountReturned ==
    \E c, d \in Returned :
        /\ caller[c].op = "SyncAirportQueued"
        /\ caller[c].ret.err = "failed to fetch weather"
        /\ caller[d].op = "SyncAllAirportsQueued"
        /\ caller[d].ret = [airport |-> NilAirport, updated |-> 1, err |-> "nil"]

(* the store: its identifiers *)

\* C34: no step of a sync operation adds or removes a record of the store
\* or changes an identifier: every step leaves the identifiers of the table,
\* row by row, as they were.
C34_IdentifiersKept == [][Faas(store') = Faas(store)]_vars

\* A single-record sync and a chunk task of a bulk sync have both written to
\* the store.
C34_BothKindsWrote ==
    \E c, d \in Callers :
        /\ one[c].writes = 1
        /\ chunk[d] # <<>>
        /\ chunk[d][1].writes >= 1
        /\ Len(store) = 1

(* SyncAllAirports: every record counted at most once *)

\* C35: in a bulk run every stored record is counted at most once: the counts
\* of a chunk task never add up to more than the records of its chunk, the
\* counts of all tasks and the totals of the run never to more than the
\* records the run read; and the identifiers a fallback loop tried are not in
\* the list of the weather loop of the same task, which then holds the
\* chunk's complete records only.
C35_CountedAtMostOnce ==
    /\ \A c \in Callers :
           /\ run[c].airports # <<>> =>
                  /\ ChunksUpdated(c) + ChunksErrors(c) <= Len(run[c].airports)
                  /\ run[c].totalUpdated + run[c].totalErrors <= Len(run[c].airports)
           /\ RunReturned(c) =>
                  /\ run[c].totalUpdated + run[c].totalErrors
                         = ChunksUpdated(c) + ChunksErrors(c)
                  /\ run[c].ret.updated <= Len(run[c].airports)
    /\ \A t \in LiveTasks :
           /\ t.updated + t.errors <= Len(t.chunk)
           /\ t.recovered + t.failed <= Len(t.tried)
           /\ Range(t.tried) \cap Range(Faas(t.allAirports)) = {}
           /\ (t.fellBack /\ t.pc \in {"weather", "update", "send"}) =>
                  /\ Range(t.allAirports) = {a \in Range(t.chunk) : a.complete}
                  /\ Len(t.allAirports) + Len(t.tried) = Len(t.chunk)
                  /\ t.weatherCalls <= Len(t.allAirports)

\* A run over an incomplete and a complete record returned: the batch lookup
\* failed twice, the fallback recovered the incomplete record, the weather
\* loop made one lookup, for the complete record, and the run counted two.
C35_FallbackThenLoop ==
    /\ RunReturned(1)
    /\ Len(run[1].airports) = 2
    /\ chunk[1][1].fellBack
    /\ chunk[1][1].recovered = 1
    /\ chunk[1][1].weatherCalls = 1
    /\ run[1].ret = [updated |-> 2, err |-> "nil"]

(* SyncAllAirports: success with no record updated *)

\* C36 as claimed: a run of SyncAllAirports over a non-empty record set that
\* returns no error has updated at least one record.
C36_SuccessMeansUpdated ==
    \A c \in Callers :
        (RunReturned(c) /\ run[c].ret.err = "nil") => run[c].ret.updated >= 1

\* C36: a run of SyncAllAirports over a non-empty record set that returns no
\* error has updated at least one record or has counted no error at all; it
\* returns no error and the count 0 exactly when nothing was counted, which
\* happens when the successful batch lookups returned none of the records,
\* all incomplete, of the set; and it returns the aggregate error exactly
\* when errors were counted and no record was updated.
C36_SuccessOrNothingCounted ==
    \A c \in Callers :
        RunReturned(c) =>
            /\ run[c].ret.err = "nil" =>
                   run[c].ret.updated >= 1 \/ ChunksErrors(c) = 0
            /\ run[c].ret = [updated |-> 0, err |-> "nil"] <=>
                   ChunksUpdated(c) + ChunksErrors(c) = 0
            /\ ChunksUpdated(c) + ChunksErrors(c) = 0 =>
                   /\ ChunksOmitted(c) = Len(run[c].airports)
                   /\ \A i \in DOMAIN run[c].airports : ~run[c].airports[i].complete
            /\ run[c].ret.err # "nil" <=>
                   (ChunksErrors(c) > 0 /\ ChunksUpdated(c) = 0)

\* A run over two incomplete records returned the count 0 and no error: its
\* batch lookup succeeded at the first call and returned neither record.
C36_NothingFetchedIsSuccess ==
    /\ RunReturned(1)
    /\ Len(run[1].airports) = 2
    /\ chunk[1][1].batchCalls = 1
    /\ chunk[1][1].omitted = 2
    /\ failures = 0
    /\ run[1].ret = [updated |-> 0, err |-> "nil"]

\* The task that takes the step is at the store update of its weather loop
\* and the update succeeds: the write of allAirports[i] by the bulk run.
BulkWrite(c, k) ==
    /\ k \in DOMAIN chunk[c]
    /\ k \in DOMAIN chunk'[c]
    /\ chunk[c][k].pc = "update"
    /\ chunk'[c][k].writes = chunk[c][k].writes + 1

\* The rows of the identifier of the record the task is about to write.
RowsOf(c, k) ==
    {r \in DOMAIN store : store[r].faa = chunk[c][k].allAirports[chunk[c][k].i].faa}

\* C37: a bulk sync loses no update: when the row of a record has changed
\* since the bulk run read all records (a single-record sync or an update of
\* that identifier committed in between), the values committed in between
\* are still in the row after the bulk run wrote the record.
C37_NoLostUpdate ==
    [][\A c \in Callers, k \in 1..NumChunks(Len(store)) :
          BulkWrite(c, k) =>
              \A r \in RowsOf(c, k) :
                  store[r] # run[c].airports[r] => store'[r] = store[r]]_vars

\* C38: a run of SyncAirportByFAA(id) that returned no error has written the
\* store exactly once, the record it wrote and returned has the identifier
\* id, whether or not the directory lookup replaced the stored record.
C38_SuccessWritesOwnRecord ==
    \A f \in Frames :
        f.pc = "done" /\ f.ret.err = "nil" =>
            /\ f.writes = 1
            /\ f.airport.faa = f.faa
            /\ f.ret.airport.faa = f.faa

\* The chunk task k of run c takes the step and it is a store update that
\* succeeded, in its weather loop or in a single-record sync of its fallback.
TaskWrites(c, k) ==
    /\ k \in DOMAIN chunk[c]
    /\ k \in DOMAIN chunk'[c]
    /\ chunk'[c][k].writes = chunk[c][k].writes + 1

\* The last element of a non-empty sequence.
Last(q) == q[Len(q)]

\* C39: in a bulk run a store update is made only for the record of the
\* task's latest weather lookup, that lookup returned no error, and the
\* weather written to the row of that record is the text it returned; no
\* other row changes.  So a record whose weather lookup failed is not written.
C39_WrittenAfterWeather ==
    [][\A c \in Callers, k \in 1..NumChunks(Len(store)) :
          TaskWrites(c, k) =>
              LET t == chunk[c][k] IN
              /\ t.looked # <<>>
              /\ t.got # NoWeather
              /\ chunk'[c][k].written = Append(t.written, Last(t.looked))
              /\ \A r \in DOMAIN store :
                     IF store[r].faa = Last(t.looked)
                     THEN store'[r].weather = t.got
                     ELSE store'[r] = store[r]]_vars

\* A task is done that looked up the weather of records 1 and 2 in that
\* order; the first lookup failed and record 1 was not written, the second
\* returned the text MaxWeather and record 2 was written with it.
C39_FailedLookupNotWritten ==
    \E c \in Callers : \E k \in DOMAIN chunk[c] :
        /\ chunk[c][k].pc = "done"
        /\ chunk[c][k].looked = <<1, 2>>
        /\ chunk[c][k].written = <<2>>
        /\ chunk[c][k].errors = 1
        /\ Len(store) = 2
        /\ store[1].weather = NoWeather
        /\ store[2].weather = MaxWeather

(* the workers: the delivery of a reply *)

\* The reply channels of job c hold nothing and were sent nothing.
Unanswered(c) ==
    /\ resultCh[c] = <<>>
    /\ errCh[c] = <<>>
    /\ sent[c] = [result |-> 0, err |-> 0]

\* C40: a worker does not block on a reply: a reply channel never holds more
\* than its capacity of one value and the two channels of a job are sent one
\* value in all; the channels of the job a worker runs are empty, so that
\* the worker can send the reply as soon as the job has returned; and a
\* worker that has replied can receive the next job while the reply is still
\* in the channel.
C40_ReplyNeverBlocks ==
    /\ \A c \in Callers :
           /\ Len(resultCh[c]) <= ReplyCap
           /\ Len(errCh[c]) <= ReplyCap
           /\ sent[c].result + sent[c].err <= 1
           /\ Len(resultCh[c]) + Len(errCh[c]) <= sent[c].result + sent[c].err
    /\ syncWorker.pc = "running" =>
           /\ Unanswered(syncWorker.job)
           /\ one[syncWorker.job].pc = "done" => ENABLED SyncWorkerReply
    /\ syncAllWorker.pc = "running" =>
           /\ Unanswered(syncAllWorker.job)
           /\ run[syncAllWorker.job].pc = "done" => ENABLED SyncAllWorkerReply
    /\ \A c \in Callers :
           (caller[c].pc = "wait" /\ resultCh[c] \o errCh[c] # <<>>) =>
               /\ (syncQueue # <<>> /\ syncWorker.pc # "running")
                      => ENABLED SyncWorkerReceive
               /\ (syncAllQueue # <<>> /\ syncAllWorker.pc # "running")
                      => ENABLED SyncAllWorkerReceive

\* The sync worker is running the second job and the job has returned, while
\* the reply to the first job is still in its channel: its caller has not
\* received it.
C40_NextJobBeforeReplyReceived ==
    /\ started.sync = <<1, 2>>
    /\ caller[1].pc = "wait"
    /\ Len(resultCh[1]) + Len(errCh[1]) = 1
    /\ syncWorker = [pc |-> "running", job |-> 2]
    /\ one[2].pc = "done"

====
